---------------------------- MODULE Spec2Model ----------------------------
(***************************************************************************)
(* A model of sparrow-rs: the genetic algorithm (libs/genetic-algorithm),  *)
(* the neural network (libs/neural-network) and the simulation             *)
(* (libs/simulation).                                                      *)
(*                                                                         *)
(* Numbers.  An f32 is modelled in fixed point: one unit is 1/Scale.  The  *)
(* random source (`rng: &mut dyn RngCore`) is a seeded stream: `tape` is   *)
(* the stream's content, chosen arbitrarily at construction and read       *)
(* cyclically, and an rng value [cur, n] is the read position together     *)
(* with the number of values read by the call in progress.  A raw value k  *)
(* in 0..RawN-1 stands for the uniform sample k/RawN of [0, 1).            *)
(***************************************************************************)
EXTENDS Integers, Sequences, FiniteSets, TLC

VARIABLES
    tape,       \* the content of the random stream (fixed by the seed)
    cursor,     \* the stream's read position between calls
    settings,   \* the Config the caller holds and hands to every call
    sim,        \* the Simulation: its fields
    generation, \* the number of generation boundaries passed
    pc,         \* where the caller is: "idle" between calls, "fast_forward"
                \* inside fast_forward's loop, "panicked", "hung"; for a
                \* library call, "ready" before it and "done" after
    call        \* the last call: its operation, arguments and result

vars == <<tape, cursor, settings, sim, generation, pc, call>>

-----------------------------------------------------------------------------
(* Bounds of the model *)

\* Number of distinct raw values the random stream can deliver.
RawN == 3
\* Length of the (cyclic) random stream.
TapeLen == 4
\* Largest population handed to a library call.
MaxPop == 3

\* Fixed-point scale: 1.0 is Scale units.
Scale == 10000

-----------------------------------------------------------------------------
(* Helpers *)

RECURSIVE SumSeq(_)
SumSeq(s) == IF s = <<>> THEN 0 ELSE Head(s) + SumSeq(Tail(s))

Min2(a, b) == IF a <= b THEN a ELSE b
Max2(a, b) == IF a >= b THEN a ELSE b

\* All sequences over S of length at most n.
SeqUpTo(S, n) == UNION {[1..k -> S] : k \in 0..n}

-----------------------------------------------------------------------------
(* The random source *)

Tapes == [1..TapeLen -> 0..(RawN - 1)]

\* The rng as a call receives it: positioned at `c`, nothing read yet.
RngAt(c) == [cur |-> c, n |-> 0]

\* RngCore::next_*: the raw value under the read position.
next_raw(r) == tape[r.cur]
advance(r) == [cur |-> (r.cur % TapeLen) + 1, n |-> r.n + 1]

\* Rng::gen::<f32>(): uniform in [0, 1), in fixed point.
gen_f32(r) == [val |-> (next_raw(r) * Scale) \div RawN, rng |-> advance(r)]

\* Rng::gen_bool(p), p = num/den.  rand's Bernoulli answers p = 1 without
\* reading the stream; any other p reads one value v and answers v < p.
gen_bool(r, num, den) ==
    IF num = den
    THEN [val |-> TRUE, rng |-> r]
    ELSE [val |-> next_raw(r) * den < num * RawN, rng |-> advance(r)]

-----------------------------------------------------------------------------
(* Results of calls that can panic *)

Ok(v, r) == [ok |-> TRUE, val |-> v, rng |-> r]
Panic(r) == [ok |-> FALSE, val |-> <<>>, rng |-> r]

-----------------------------------------------------------------------------
(* genetic-algorithm: RouletteWheelSelection *)

fitnesses(population) == [i \in 1..Len(population) |-> population[i].fitness]

\* WeightedIndex::new as called by SliceRandom::choose_weighted: the error
\* it returns, or "Ok".
WeightedIndex_new(w) ==
    IF Len(w) = 0 THEN "NoItem"
    ELSE IF \E i \in 1..Len(w) : w[i] < 0 THEN "InvalidWeight"
    ELSE IF SumSeq(w) = 0 THEN "AllWeightsZero"
    ELSE "Ok"

\* The cumulative weights WeightedIndex keeps: the running totals before
\* each element but the first.
cumulative_weights(w) ==
    [i \in 1..(Len(w) - 1) |-> SumSeq(SubSeq(w, 1, i))]

\* WeightedIndex::sample for the chosen weight num/den in [0, total):
\* partition_point(|w| w <= chosen) over the cumulative weights, 1-based.
partition_point_mut(w, num, den) ==
    Cardinality({i \in 1..(Len(w) - 1) : cumulative_weights(w)[i] * den < num}) + 1
partition_point(w, num, den) ==
    Cardinality({i \in 1..(Len(w) - 1) : cumulative_weights(w)[i] * den <= num}) + 1

\* RouletteWheelSelection::select: the index of the chosen individual, or a
\* panic from `.expect` when choose_weighted returns an error.
select_mut(r, population) ==
    IF Len(population) = 0
    THEN Panic(r)
    ELSE Ok(partition_point(fitnesses(population),
                            next_raw(r) * SumSeq(fitnesses(population)), RawN),
            advance(r))
select(r, population) ==
    IF WeightedIndex_new(fitnesses(population)) # "Ok"
    THEN Panic(r)
    ELSE Ok(partition_point(fitnesses(population),
                            next_raw(r) * SumSeq(fitnesses(population)), RawN),
            advance(r))

-----------------------------------------------------------------------------
(* genetic-algorithm: UniformCrossover *)

\* The zip/map/collect of crossover from gene i on: [val: genes, rng].
RECURSIVE crossover_from(_, _, _, _)
crossover_from(r, parent_a, parent_b, i) ==
    IF i > Len(parent_a)
    THEN [val |-> <<>>, rng |-> r]
    ELSE LET Collected(g, rest) == [val |-> <<g>> \o rest.val, rng |-> rest.rng]
             Gene(b) == Collected(IF b.val THEN parent_a[i] ELSE parent_b[i],
                                  crossover_from(b.rng, parent_a, parent_b, i + 1))
         IN Gene(gen_bool(r, 1, 2))

crossover_mut(r, parent_a, parent_b) ==
    LET Collected(c) == Ok(c.val, c.rng)
    IN Collected(crossover_from(r,
           SubSeq(parent_a, 1, Min2(Len(parent_a), Len(parent_b))),
           SubSeq(parent_b, 1, Min2(Len(parent_a), Len(parent_b))), 1))
crossover(r, parent_a, parent_b) ==
    IF Len(parent_a) # Len(parent_b)
    THEN Panic(r)
    ELSE LET Collected(c) == Ok(c.val, c.rng)
         IN Collected(crossover_from(r, parent_a, parent_b, 1))

-----------------------------------------------------------------------------
(* genetic-algorithm: GaussianMutation *)

\* f32 multiplication in fixed point, rounded toward zero.
FMul(a, b) ==
    LET p == a * b
    IN IF p >= 0 THEN p \div Scale ELSE -((-p) \div Scale)

\* GaussianMutation::new: chance is the fraction <<num, den>>.
GaussianMutation_new(chance, magnitude) ==
    IF chance[1] >= 0 /\ chance[1] <= chance[2]
    THEN Ok([chance |-> chance, magnitude |-> magnitude], <<>>)
    ELSE Panic(<<>>)

\* One iteration of mutate's loop on `gene`: [val: the gene after, rng, log].
\* The log lists the uses of the rng in the order they were made, each with
\* the number of values the call had read before it.
mutate_gene_unscaled(r, self, gene) ==
    LET Perturbed(s, sign, d, u) ==
            [val |-> gene + FMul(sign, u.val), rng |-> u.rng,
             log |-> <<[draw |-> "sign", at |-> r.n, sign |-> sign],
                       [draw |-> "decision", at |-> s.rng.n, perturb |-> TRUE],
                       [draw |-> "magnitude", at |-> d.rng.n, u |-> u.val]>>]
        Decided(s, sign, d) ==
            IF d.val THEN Perturbed(s, sign, d, gen_f32(d.rng))
            ELSE [val |-> gene, rng |-> d.rng,
                  log |-> <<[draw |-> "sign", at |-> r.n, sign |-> sign],
                            [draw |-> "decision", at |-> s.rng.n, perturb |-> FALSE]>>]
        Signed(s) ==
            Decided(s, IF s.val THEN -Scale ELSE Scale,
                    gen_bool(s.rng, self.chance[1], self.chance[2]))
    IN Signed(gen_bool(r, 1, 2))
mutate_gene_swapped(r, self, gene) ==
    LET Perturbed(s, sign, d, u) ==
            [val |-> gene + FMul(FMul(self.magnitude, sign), u.val), rng |-> u.rng,
             log |-> <<[draw |-> "sign", at |-> r.n, sign |-> sign],
                       [draw |-> "decision", at |-> s.rng.n, perturb |-> TRUE],
                       [draw |-> "magnitude", at |-> d.rng.n, u |-> u.val]>>]
        Decided(s, sign, d) ==
            IF d.val THEN Perturbed(s, sign, d, gen_f32(d.rng))
            ELSE [val |-> gene, rng |-> d.rng,
                  log |-> <<[draw |-> "sign", at |-> r.n, sign |-> sign],
                            [draw |-> "decision", at |-> s.rng.n, perturb |-> FALSE]>>]
        Signed(s) ==
            Decided(s, IF s.val THEN Scale ELSE -Scale,
                    gen_bool(s.rng, self.chance[1], self.chance[2]))
    IN Signed(gen_bool(r, 1, 2))
mutate_gene_eager(r, self, gene) ==
    LET Drawn(s, sign, d, u) ==
            [val |-> IF d.val THEN gene + FMul(FMul(self.magnitude, sign), u.val)
                     ELSE gene,
             rng |-> u.rng,
             log |-> <<[draw |-> "sign", at |-> r.n, sign |-> sign],
                       [draw |-> "decision", at |-> s.rng.n, perturb |-> d.val],
                       [draw |-> "magnitude", at |-> d.rng.n, u |-> u.val]>>]
        Decided(s, sign, d) == Drawn(s, sign, d, gen_f32(d.rng))
        Signed(s) ==
            Decided(s, IF s.val THEN -Scale ELSE Scale,
                    gen_bool(s.rng, self.chance[1], self.chance[2]))
    IN Signed(gen_bool(r, 1, 2))
mutate_gene(r, self, gene) ==
    LET Perturbed(s, sign, d, u) ==
            [val |-> gene + FMul(FMul(self.magnitude, sign), u.val), rng |-> u.rng,
             log |-> <<[draw |-> "sign", at |-> r.n, sign |-> sign],
                       [draw |-> "decision", at |-> s.rng.n, perturb |-> TRUE],
                       [draw |-> "magnitude", at |-> d.rng.n, u |-> u.val]>>]
        Decided(s, sign, d) ==
            IF d.val THEN Perturbed(s, sign, d, gen_f32(d.rng))
            ELSE [val |-> gene, rng |-> d.rng,
                  log |-> <<[draw |-> "sign", at |-> r.n, sign |-> sign],
                            [draw |-> "decision", at |-> s.rng.n, perturb |-> FALSE]>>]
        Signed(s) ==
            Decided(s, IF s.val THEN -Scale ELSE Scale,
                    gen_bool(s.rng, self.chance[1], self.chance[2]))
    IN Signed(gen_bool(r, 1, 2))

\* GaussianMutation::mutate from gene i on: [val: genes, rng, log: per gene].
RECURSIVE mutate_from(_, _, _, _)
mutate_from(r, self, child, i) ==
    IF i > Len(child)
    THEN [val |-> <<>>, rng |-> r, log |-> <<>>]
    ELSE LET Collected(g, rest) ==
                 [val |-> <<g.val>> \o rest.val, rng |-> rest.rng,
                  log |-> <<g.log>> \o rest.log]
             Gene(g) == Collected(g, mutate_from(g.rng, self, child, i + 1))
         IN Gene(mutate_gene(r, self, child[i]))

mutate(r, self, child) == mutate_from(r, self, child, 1)

-----------------------------------------------------------------------------
(* genetic-algorithm: Statistics and GeneticAlgorithm::evolve *)

\* The fold of Statistics::new over population[i..]: <<min, max, sum>>.
RECURSIVE statistics_fold(_, _, _)
statistics_fold(population, i, acc) ==
    IF i > Len(population)
    THEN acc
    ELSE statistics_fold(population, i + 1,
                         <<Min2(acc[1], population[i].fitness),
                           Max2(acc[2], population[i].fitness),
                           acc[3] + population[i].fitness>>)

\* Statistics::new.  avg_fitness is the quotient <<sum, len>>.
Statistics_new_mut(population) ==
    IF Len(population) = 0
    THEN Panic(<<>>)
    ELSE LET acc == statistics_fold(population, 1, <<0, 0, 0>>)
         IN Ok([min_fitness |-> acc[1],
                max_fitness |-> acc[2],
                avg_fitness |-> <<acc[3], Len(population)>>], <<>>)
Statistics_new(population) ==
    IF Len(population) = 0
    THEN Panic(<<>>)
    ELSE LET acc == statistics_fold(population, 1,
                        <<population[1].fitness, population[1].fitness, 0>>)
         IN Ok([min_fitness |-> acc[1],
                max_fitness |-> acc[2],
                avg_fitness |-> <<acc[3], Len(population)>>], <<>>)

\* Individual::create as AnimalIndividual implements it.
create(chromosome) == [fitness |-> 0, chromosome |-> chromosome]

\* A population with its i-th individual taken out.
Without(population, i) ==
    [j \in 1..(Len(population) - 1) |->
        IF j < i THEN population[j] ELSE population[j + 1]]

\* The closure of evolve's map for one output slot: select, select,
\* crossover, mutate, create.  `log` lists the steps in execution order, each
\* with what it was handed, what it gave back and the number of values the
\* evolve call had read from the stream when the step began.
evolve_slot_mut(r, self, population) ==
    LET rest(a) == IF Len(population) > 1 THEN Without(population, a.val)
                   ELSE population
        log_a(a) == [step |-> "select", at |-> r.n, population |-> population,
                     index |-> a.val]
        log_b(a, b) == [step |-> "select", at |-> a.rng.n, population |-> rest(a),
                        index |-> b.val]
        log_c(a, b, c) == [step |-> "crossover", at |-> b.rng.n,
                           parent_a |-> population[a.val].chromosome,
                           parent_b |-> rest(a)[b.val].chromosome, child |-> c.val]
        Mutated(a, b, c, m) ==
            [ok |-> TRUE, val |-> create(m.val), rng |-> m.rng,
             log |-> <<log_a(a), log_b(a, b), log_c(a, b, c),
                       [step |-> "mutate", at |-> c.rng.n, child |-> c.val,
                        mutated |-> m.val],
                       [step |-> "create", at |-> m.rng.n, child |-> m.val]>>]
        Crossed(a, b, c) ==
            IF ~c.ok
            THEN [ok |-> FALSE, val |-> <<>>, rng |-> c.rng,
                  log |-> <<log_a(a), log_b(a, b)>>]
            ELSE Mutated(a, b, c, mutate(c.rng, self, c.val))
        SelectedB(a, b) ==
            IF ~b.ok
            THEN [ok |-> FALSE, val |-> <<>>, rng |-> b.rng, log |-> <<log_a(a)>>]
            ELSE Crossed(a, b, crossover(b.rng, population[a.val].chromosome,
                                         rest(a)[b.val].chromosome))
        SelectedA(a) ==
            IF ~a.ok
            THEN [ok |-> FALSE, val |-> <<>>, rng |-> a.rng, log |-> <<>>]
            ELSE SelectedB(a, select(a.rng, rest(a)))
    IN SelectedA(select(r, population))
evolve_slot(r, self, population) ==
    LET log_a(a) == [step |-> "select", at |-> r.n, population |-> population,
                     index |-> a.val]
        log_b(a, b) == [step |-> "select", at |-> a.rng.n, population |-> population,
                        index |-> b.val]
        log_c(a, b, c) == [step |-> "crossover", at |-> b.rng.n,
                           parent_a |-> population[a.val].chromosome,
                           parent_b |-> population[b.val].chromosome, child |-> c.val]
        Mutated(a, b, c, m) ==
            [ok |-> TRUE, val |-> create(m.val), rng |-> m.rng,
             log |-> <<log_a(a), log_b(a, b), log_c(a, b, c),
                       [step |-> "mutate", at |-> c.rng.n, child |-> c.val,
                        mutated |-> m.val],
                       [step |-> "create", at |-> m.rng.n, child |-> m.val]>>]
        Crossed(a, b, c) ==
            IF ~c.ok
            THEN [ok |-> FALSE, val |-> <<>>, rng |-> c.rng,
                  log |-> <<log_a(a), log_b(a, b)>>]
            ELSE Mutated(a, b, c, mutate(c.rng, self, c.val))
        SelectedB(a, b) ==
            IF ~b.ok
            THEN [ok |-> FALSE, val |-> <<>>, rng |-> b.rng, log |-> <<log_a(a)>>]
            ELSE Crossed(a, b, crossover(b.rng, population[a.val].chromosome,
                                         population[b.val].chromosome))
        SelectedA(a) ==
            IF ~a.ok
            THEN [ok |-> FALSE, val |-> <<>>, rng |-> a.rng, log |-> <<>>]
            ELSE SelectedB(a, select(a.rng, population))
    IN SelectedA(select(r, population))

\* (0..population.len()).map(..).collect() from slot `slot` on.
RECURSIVE evolve_from(_, _, _, _)
evolve_from(r, self, population, slot) ==
    IF slot > Len(population)
    THEN [ok |-> TRUE, val |-> <<>>, rng |-> r, log |-> <<>>]
    ELSE LET Collected(s, rest) ==
                 [ok |-> rest.ok, val |-> <<s.val>> \o rest.val, rng |-> rest.rng,
                  log |-> <<s.log>> \o rest.log]
             Slot(s) ==
                 IF ~s.ok
                 THEN [ok |-> FALSE, val |-> <<>>, rng |-> s.rng, log |-> <<s.log>>]
                 ELSE Collected(s, evolve_from(s.rng, self, population, slot + 1))
         IN Slot(evolve_slot(r, self, population))

\* GeneticAlgorithm::evolve with the default operators: val is
\* <<new_population, stats>>; log holds one step list per slot begun.
evolve_mut(r, self, population) ==
    IF Len(population) = 0
    THEN [ok |-> FALSE, val |-> <<>>, rng |-> r, log |-> <<>>]
    ELSE LET Evolved(n) ==
                 IF ~n.ok
                 THEN [ok |-> FALSE, val |-> <<>>, rng |-> n.rng, log |-> n.log]
                 ELSE [ok |-> TRUE, val |-> <<n.val, Statistics_new(population).val>>,
                       rng |-> n.rng, log |-> n.log]
         IN Evolved(evolve_from(r, self,
                                SubSeq(population, 1, Len(population) - 1), 1))
evolve(r, self, population) ==
    IF Len(population) = 0
    THEN [ok |-> FALSE, val |-> <<>>, rng |-> r, log |-> <<>>]
    ELSE LET Evolved(n) ==
                 IF ~n.ok
                 THEN [ok |-> FALSE, val |-> <<>>, rng |-> n.rng, log |-> n.log]
                 ELSE [ok |-> TRUE, val |-> <<n.val, Statistics_new(population).val>>,
                       rng |-> n.rng, log |-> n.log]
         IN Evolved(evolve_from(r, self, population, 1))

-----------------------------------------------------------------------------
(* f32 values that may be NaN or infinite *)

\* A float with its class: a finite fixed-point value, NaN, or an infinity
\* with its sign in v.
Fin(v) == [k |-> "fin", v |-> v]
NaN == [k |-> "nan", v |-> 0]
Inf(sign) == [k |-> "inf", v |-> sign]

\* Integer division rounded toward zero.
TruncDiv(a, b) == IF a >= 0 THEN a \div b ELSE -((-a) \div b)

FNeg(a) == IF a.k = "nan" THEN NaN ELSE [k |-> a.k, v |-> -a.v]

FAdd(a, b) ==
    IF a.k = "nan" \/ b.k = "nan" THEN NaN
    ELSE IF a.k = "inf" THEN (IF b.k = "inf" /\ b.v # a.v THEN NaN ELSE a)
    ELSE IF b.k = "inf" THEN b
    ELSE Fin(a.v + b.v)

FSub(a, b) == FAdd(a, FNeg(b))

\* a * (num/den) for a positive constant num/den.
FMulC(a, num, den) == IF a.k = "fin" THEN Fin(TruncDiv(a.v * num, den)) ELSE a

\* a / n for a count n >= 0 cast to f32: x/0 is an infinity, 0/0 is NaN.
FDivN(a, n) ==
    IF a.k # "fin" THEN a
    ELSE IF n > 0 THEN Fin(TruncDiv(a.v, n))
    ELSE IF a.v > 0 THEN Inf(1)
    ELSE IF a.v < 0 THEN Inf(-1)
    ELSE NaN

\* Floor of the square root.
RECURSIVE ISqrtIter(_, _)
ISqrtIter(n, x) ==
    LET y == (x + n \div x) \div 2
    IN IF y >= x THEN x ELSE ISqrtIter(n, y)
ISqrt(n) == IF n < 2 THEN n ELSE ISqrtIter(n, n)

\* Vectors and points are pairs <<x, y>> of floats.
VAdd(p, q) == <<FAdd(p[1], q[1]), FAdd(p[2], q[2])>>
VSub(p, q) == <<FSub(p[1], q[1]), FSub(p[2], q[2])>>
VMulC(p, num, den) == <<FMulC(p[1], num, den), FMulC(p[2], num, den)>>
VDivN(p, n) == <<FDivN(p[1], n), FDivN(p[2], n)>>
VZero == <<Fin(0), Fin(0)>>
VFinite(p) == p[1].k = "fin" /\ p[2].k = "fin"

\* Point2 == Point2: componentwise f32 equality, so NaN equals nothing.
PointEq(p, q) == VFinite(p) /\ VFinite(q) /\ p[1].v = q[1].v /\ p[2].v = q[2].v

\* Squared length of a finite vector.
NormSq(p) == p[1].v * p[1].v + p[2].v * p[2].v

RECURSIVE VSum(_)
VSum(ps) == IF ps = <<>> THEN VZero ELSE VAdd(Head(ps), VSum(Tail(ps)))

-----------------------------------------------------------------------------
(* Angles.  A rotation is a whole number of eighths of a turn (pi/4).      *)

\* pi in units of pi/4.
PI == 4
\* pi/4 radians in fixed point.
FRAC_PI_4 == 7854

\* sin and cos of k * pi/4 in fixed point, k in 0..7.
SinTable == <<0, 7071, 10000, 7071, 0, -7071, -10000, -7071>>
Sin8(k) == SinTable[(k % 8) + 1]
Cos8(k) == SinTable[((k + 2) % 8) + 1]

\* Rotation2::angle(): the angle in (-pi, pi].
rotation_angle(rotation) ==
    IF rotation % 8 > PI THEN (rotation % 8) - 8 ELSE rotation % 8

\* rotation * Vector2::new(0.0, speed)
rotate_forward(rotation, speed) ==
    <<Fin(-TruncDiv(Sin8(rotation) * speed, Scale)),
      Fin(TruncDiv(Cos8(rotation) * speed, Scale))>>

\* Rotation2::rotation_between(&Vector2::y(), &vec).angle() for a finite vec,
\* in half units of pi/4: 2k is the angle k * pi/4 exactly, 2k + 1 is an angle
\* strictly between k * pi/4 and (k + 1) * pi/4.  The zero vector gives the
\* identity rotation.
SectorPos(s, c) ==
    IF c > 0 THEN (IF s < c THEN 1 ELSE IF s = c THEN 2 ELSE 3)
    ELSE IF c = 0 THEN 4
    ELSE (IF s > -c THEN 5 ELSE IF s = -c THEN 6 ELSE 7)
angle_from_y(vec) ==
    LET s == -vec[1].v
        c == vec[2].v
    IN IF s = 0 THEN (IF c >= 0 THEN 0 ELSE 2 * PI)
       ELSE IF s > 0 THEN SectorPos(s, c)
       ELSE -SectorPos(-s, c)

\* na::wrap(val, min, max) on a finite value: into [min, max].
wrap(val, min, max) ==
    IF val < min THEN max - ((min - val - 1) % (max - min)) - 1
    ELSE IF val > max THEN min + ((val - max - 1) % (max - min)) + 1
    ELSE val

-----------------------------------------------------------------------------
(* neural-network *)

\* Rng::gen_range(-1.0..=1.0)
gen_range_unit(r) ==
    [val |-> -Scale + (2 * Scale * next_raw(r)) \div RawN, rng |-> advance(r)]

\* The draws of Neuron::random for the weights from weight i on.
RECURSIVE random_weights(_, _)
random_weights(r, count) ==
    IF count = 0
    THEN [val |-> <<>>, rng |-> r]
    ELSE LET Collected(w, rest) == [val |-> <<w.val>> \o rest.val, rng |-> rest.rng]
             Weight(w) == Collected(w, random_weights(w.rng, count - 1))
         IN Weight(gen_range_unit(r))

\* Neuron::random
Neuron_random(r, input_size) ==
    LET Built(bias, weights) ==
            [val |-> [bias |-> bias.val, weights |-> weights.val], rng |-> weights.rng]
        Bias(bias) == Built(bias, random_weights(bias.rng, input_size))
    IN Bias(gen_range_unit(r))

\* Layer::random
RECURSIVE Layer_random(_, _, _)
Layer_random(r, input_size, output_size) ==
    IF output_size = 0
    THEN [val |-> <<>>, rng |-> r]
    ELSE LET Collected(n, rest) == [val |-> <<n.val>> \o rest.val, rng |-> rest.rng]
             Neuron(n) == Collected(n, Layer_random(n.rng, input_size, output_size - 1))
         IN Neuron(Neuron_random(r, input_size))

\* Network::random from the window of layers starting at i
RECURSIVE Network_random_from(_, _, _)
Network_random_from(r, layers, i) ==
    IF i >= Len(layers)
    THEN [val |-> <<>>, rng |-> r]
    ELSE LET Collected(l, rest) == [val |-> <<l.val>> \o rest.val, rng |-> rest.rng]
             Layer(l) == Collected(l, Network_random_from(l.rng, layers, i + 1))
         IN Layer(Layer_random(r, layers[i], layers[i + 1]))

\* Network::random: panics unless the topology has more than one layer.
Network_random(r, layers) ==
    IF Len(layers) > 1
    THEN LET Built(n) == Ok(n.val, n.rng)
         IN Built(Network_random_from(r, layers, 1))
    ELSE Panic(r)

\* Network::weights: bias, then weights, neuron by neuron, layer by layer.
RECURSIVE neurons_weights_mut(_)
neurons_weights_mut(neurons) ==
    IF neurons = <<>> THEN <<>>
    ELSE Head(neurons).weights \o <<Head(neurons).bias>>
           \o neurons_weights_mut(Tail(neurons))
RECURSIVE neurons_weights(_)
neurons_weights(neurons) ==
    IF neurons = <<>> THEN <<>>
    ELSE <<Head(neurons).bias>> \o Head(neurons).weights \o neurons_weights(Tail(neurons))
RECURSIVE Network_weights(_)
Network_weights(layers) ==
    IF layers = <<>> THEN <<>>
    ELSE neurons_weights(Head(layers)) \o Network_weights(Tail(layers))

\* Neuron::from_weights on the iterator `weights` (the genes not yet taken):
\* [ok, val: the neuron, rest: the genes left].
Neuron_from_weights(input_size, weights) ==
    IF Len(weights) < 1 + input_size
    THEN [ok |-> FALSE, val |-> <<>>, rest |-> <<>>]
    ELSE [ok |-> TRUE,
          val |-> [bias |-> weights[1], weights |-> SubSeq(weights, 2, 1 + input_size)],
          rest |-> SubSeq(weights, 2 + input_size, Len(weights))]

\* Layer::from_weights
RECURSIVE Layer_from_weights(_, _, _)
Layer_from_weights(input_size, output_size, weights) ==
    IF output_size = 0
    THEN [ok |-> TRUE, val |-> <<>>, rest |-> weights]
    ELSE LET Collected(n, more) ==
                 IF ~more.ok
                 THEN [ok |-> FALSE, val |-> <<>>, rest |-> <<>>]
                 ELSE [ok |-> TRUE, val |-> <<n.val>> \o more.val, rest |-> more.rest]
             Neuron(n) ==
                 IF ~n.ok
                 THEN [ok |-> FALSE, val |-> <<>>, rest |-> <<>>]
                 ELSE Collected(n, Layer_from_weights(input_size, output_size - 1,
                                                     n.rest))
         IN Neuron(Neuron_from_weights(input_size, weights))

RECURSIVE Network_from_weights_from(_, _, _)
Network_from_weights_from(topology, weights, i) ==
    IF i >= Len(topology)
    THEN [ok |-> TRUE, val |-> <<>>, rest |-> weights]
    ELSE LET Collected(l, more) ==
                 IF ~more.ok
                 THEN [ok |-> FALSE, val |-> <<>>, rest |-> <<>>]
                 ELSE [ok |-> TRUE, val |-> <<l.val>> \o more.val, rest |-> more.rest]
             Layer(l) ==
                 IF ~l.ok
                 THEN [ok |-> FALSE, val |-> <<>>, rest |-> <<>>]
                 ELSE Collected(l, Network_from_weights_from(topology, l.rest, i + 1))
         IN Layer(Layer_from_weights(topology[i], topology[i + 1], weights))

\* Network::from_weights: panics on too few and on too many weights.
Network_from_weights_mut(topology, weights) ==
    LET Built(n) == IF n.ok THEN Ok(n.val, <<>>) ELSE Panic(<<>>)
    IN Built(Network_from_weights_from(topology, weights, 1))
Network_from_weights(topology, weights) ==
    LET Built(n) == IF n.ok /\ n.rest = <<>> THEN Ok(n.val, <<>>) ELSE Panic(<<>>)
    IN Built(Network_from_weights_from(topology, weights, 1))

\* The sum of input * weight of Neuron::propagate, for finite inputs.
RECURSIVE weighted_sum(_, _)
weighted_sum(inputs, weights) ==
    IF inputs = <<>> THEN 0
    ELSE FMul(Head(inputs).v, Head(weights)) + weighted_sum(Tail(inputs), Tail(weights))

\* Neuron::propagate: [ok, val].  f32::max(NaN, 0.0) is 0.0.
Neuron_propagate_mut(neuron, inputs) ==
    IF Len(inputs) # Len(neuron.weights)
    THEN [ok |-> FALSE, val |-> NaN]
    ELSE IF \E i \in 1..Len(inputs) : inputs[i].k = "nan"
    THEN [ok |-> TRUE, val |-> NaN]
    ELSE [ok |-> TRUE,
          val |-> Fin(weighted_sum(inputs, neuron.weights) + neuron.bias)]
Neuron_propagate(neuron, inputs) ==
    IF Len(inputs) # Len(neuron.weights)
    THEN [ok |-> FALSE, val |-> NaN]
    ELSE IF \E i \in 1..Len(inputs) : inputs[i].k = "nan"
    THEN [ok |-> TRUE, val |-> Fin(0)]
    ELSE [ok |-> TRUE,
          val |-> Fin(Max2(weighted_sum(inputs, neuron.weights) + neuron.bias, 0))]

\* Layer::propagate
Layer_propagate(neurons, inputs) ==
    IF \E i \in 1..Len(neurons) : ~Neuron_propagate(neurons[i], inputs).ok
    THEN [ok |-> FALSE, val |-> <<>>]
    ELSE [ok |-> TRUE,
          val |-> [i \in 1..Len(neurons) |-> Neuron_propagate(neurons[i], inputs).val]]

\* Network::propagate: the fold over the layers.
RECURSIVE Network_propagate(_, _)
Network_propagate(layers, inputs) ==
    IF layers = <<>>
    THEN [ok |-> TRUE, val |-> inputs]
    ELSE LET Layer(l) == IF ~l.ok THEN l ELSE Network_propagate(Tail(layers), l.val)
         IN Layer(Layer_propagate(Head(layers), inputs))

-----------------------------------------------------------------------------
(* simulation: configuration *)

\* Length of a generation in ticks (SimulationConfig::max_generation).
MaxGeneration == 2
\* Largest number of animals a world is built with (WorldConfig::num_animals).
MaxAnimals == 3
\* Number of foods in the world (WorldConfig::num_foods).
NumFoods == 1
\* Number of generation boundaries a behaviour is followed through.
MaxEvolves == 2

\* The resolved Config handed to every call.  Lengths and speeds are the
\* defaults of config.rs in fixed point; the field of view is pi wide with
\* two cells, so that every cell edge is a multiple of pi/4.
Config(num_animals) ==
    [simulation |-> [speed_max |-> 25, speed_min |-> 1, speed_accel |-> 500,
                     rotation_accel |-> FRAC_PI_4,
                     mutation_chance |-> <<1, 100>>, mutation_weight |-> 3000,
                     max_generation |-> MaxGeneration],
     world |-> [num_animals |-> num_animals, num_foods |-> NumFoods],
     eye |-> [fov_range |-> 5000, fov_angle |-> PI, cells |-> 2]]

\* AnimalConfig::default().speed
INITIAL_SPEED == 20

-----------------------------------------------------------------------------
(* simulation: Eye *)

\* Eye::new
Eye_new(fov_range, fov_angle, cells) ==
    IF fov_range > 0 /\ fov_angle > 0 /\ cells > 0
    THEN Ok([fov_range |-> fov_range, fov_angle |-> fov_angle, cells |-> cells], <<>>)
    ELSE Panic(<<>>)

\* Eye::config_new
Eye_config_new(cfg) ==
    Eye_new(cfg.eye.fov_range, cfg.eye.fov_angle, cfg.eye.cells).val

\* What one food adds to the cells, seen from `position` with `rotation`:
\* [cell, energy], cell = 0 when the food is skipped.  Angles are in half
\* units of pi/4 (see angle_from_y).  A NaN position passes every test
\* (comparisons with NaN are false), lands in cell 0 of the code (`NaN as
\* usize` is 0) and carries a NaN energy.
food_vision_mut(eye, position, rotation, food) ==
    IF ~VFinite(position)
    THEN [cell |-> 1, energy |-> NaN]
    ELSE LET vec == VSub(food, position)
             d2 == NormSq(vec)
             angle0 == angle_from_y(vec) - 2 * rotation_angle(rotation)
             angle == wrap(angle0, -2 * PI, 2 * PI)
             half == eye.fov_angle
             shifted == (angle + half) \div 2
             cell_idx == (shifted * eye.cells) \div eye.fov_angle
         IN IF d2 > eye.fov_range * eye.fov_range THEN [cell |-> 0, energy |-> Fin(0)]
            ELSE IF angle < -half \/ angle > half THEN [cell |-> 0, energy |-> Fin(0)]
            ELSE [cell |-> Min2(cell_idx, eye.cells - 1) + 1,
                  energy |-> Fin(((eye.fov_range - ISqrt(d2)) * Scale) \div eye.fov_range)]
food_vision_unclamped(eye, position, rotation, food) ==
    IF ~VFinite(position)
    THEN [cell |-> 1, energy |-> NaN]
    ELSE LET vec == VSub(food, position)
             d2 == NormSq(vec)
             angle0 == angle_from_y(vec) - 2 * rotation_angle(rotation)
             angle == wrap(angle0, -2 * PI, 2 * PI)
             half == eye.fov_angle
             shifted == (angle + half) \div 2
             cell_idx == (shifted * eye.cells) \div eye.fov_angle
         IN IF d2 >= eye.fov_range * eye.fov_range THEN [cell |-> 0, energy |-> Fin(0)]
            ELSE IF angle < -half \/ angle > half THEN [cell |-> 0, energy |-> Fin(0)]
            ELSE [cell |-> cell_idx + 1,
                  energy |-> Fin(((eye.fov_range - ISqrt(d2)) * Scale) \div eye.fov_range)]
food_vision(eye, position, rotation, food) ==
    IF ~VFinite(position)
    THEN [cell |-> 1, energy |-> NaN]
    ELSE LET vec == VSub(food, position)
             d2 == NormSq(vec)
             angle0 == angle_from_y(vec) - 2 * rotation_angle(rotation)
             angle == wrap(angle0, -2 * PI, 2 * PI)
             half == eye.fov_angle
             shifted == (angle + half) \div 2
             cell_idx == (shifted * eye.cells) \div eye.fov_angle
         IN IF d2 >= eye.fov_range * eye.fov_range THEN [cell |-> 0, energy |-> Fin(0)]
            ELSE IF angle < -half \/ angle > half THEN [cell |-> 0, energy |-> Fin(0)]
            ELSE [cell |-> Min2(cell_idx, eye.cells - 1) + 1,
                  energy |-> Fin(((eye.fov_range - ISqrt(d2)) * Scale) \div eye.fov_range)]

\* Eye::calc_vision: the loop over the foods from food i on, adding to cells.
RECURSIVE calc_vision_from(_, _, _, _, _, _)
calc_vision_from(eye, position, rotation, foods, i, cells) ==
    IF i > Len(foods)
    THEN cells
    ELSE LET Seen(f) ==
                 calc_vision_from(eye, position, rotation, foods, i + 1,
                     IF f.cell = 0 THEN cells
                     ELSE [cells EXCEPT ![f.cell] = FAdd(@, f.energy)])
         IN Seen(food_vision(eye, position, rotation, foods[i].position))

calc_vision(eye, position, rotation, foods) ==
    calc_vision_from(eye, position, rotation, foods, 1, [c \in 1..eye.cells |-> Fin(0)])

-----------------------------------------------------------------------------
(* simulation: Brain.  brain.rs is not among the sources: the brain is a    *)
(* Network whose input layer has one neuron per eye cell and whose output   *)
(* layer has the two neurons calc_brain reads.                              *)

Brain_topology(eye) == <<eye.cells, 2>>

Brain_random(r, eye) == Network_random(r, Brain_topology(eye))

Brain_from_chromosome(chromosome, eye) ==
    Network_from_weights(Brain_topology(eye), chromosome)

Brain_as_chromosome(brain) == Network_weights(brain)

-----------------------------------------------------------------------------
(* simulation: Animal, Food, AnimalIndividual *)

\* rng.gen::<Point2<f32>>(): x, then y, each uniform in [0, 1).
gen_point(r) ==
    LET Point(x, y) == [val |-> <<Fin(x.val), Fin(y.val)>>, rng |-> y.rng]
        X(x) == Point(x, gen_f32(x.rng))
    IN X(gen_f32(r))

\* rng.gen::<Rotation2<f32>>(): an angle uniform in [0, 2 pi), here cut down
\* to a multiple of pi/4.
gen_rotation(r) ==
    [val |-> (next_raw(r) * 2 * PI) \div RawN, rng |-> advance(r)]

\* Animal::new
Animal_new_mut(r, eye, brain) ==
    LET Placed(position, rotation) ==
            [val |-> [eye |-> eye, brain |-> brain, position |-> position.val,
                      rotation |-> rotation.val, speed |-> INITIAL_SPEED,
                      hunger |-> 1],
             rng |-> rotation.rng]
        Position(position) == Placed(position, gen_rotation(position.rng))
    IN Position(gen_point(r))
Animal_new(r, eye, brain) ==
    LET Placed(position, rotation) ==
            [val |-> [eye |-> eye, brain |-> brain, position |-> position.val,
                      rotation |-> rotation.val, speed |-> INITIAL_SPEED,
                      hunger |-> 0],
             rng |-> rotation.rng]
        Position(position) == Placed(position, gen_rotation(position.rng))
    IN Position(gen_point(r))

\* Animal::random
Animal_random(r, cfg) ==
    LET Built(eye, brain) == Animal_new(brain.rng, eye, brain.val)
        Eye(eye) == Built(eye, Brain_random(r, eye))
    IN Eye(Eye_config_new(cfg))

\* Animal::from_chromosome
Animal_from_chromosome(r, cfg, chromosome) ==
    LET Eye(eye) == Animal_new(r, eye, Brain_from_chromosome(chromosome, eye).val)
    IN Eye(Eye_config_new(cfg))

\* Food::random
Food_random(r) ==
    LET Position(position) == [val |-> [position |-> position.val], rng |-> position.rng]
    IN Position(gen_point(r))

\* AnimalIndividual::from_animal
from_animal(animal) ==
    [fitness |-> animal.hunger, chromosome |-> Brain_as_chromosome(animal.brain)]

\* AnimalIndividual::into_animal
into_animal(r, cfg, individual) ==
    Animal_from_chromosome(r, cfg, individual.chromosome)

-----------------------------------------------------------------------------
(* simulation: World *)

RECURSIVE random_animals(_, _, _)
random_animals(r, cfg, count) ==
    IF count = 0
    THEN [val |-> <<>>, rng |-> r]
    ELSE LET Collected(a, rest) == [val |-> <<a.val>> \o rest.val, rng |-> rest.rng]
             Animal(a) == Collected(a, random_animals(a.rng, cfg, count - 1))
         IN Animal(Animal_random(r, cfg))

RECURSIVE random_foods(_, _)
random_foods(r, count) ==
    IF count = 0
    THEN [val |-> <<>>, rng |-> r]
    ELSE LET Collected(f, rest) == [val |-> <<f.val>> \o rest.val, rng |-> rest.rng]
             Food(f) == Collected(f, random_foods(f.rng, count - 1))
         IN Food(Food_random(r))

\* World::random
World_random(r, cfg) ==
    LET Built(as, fs) == [val |-> [animals |-> as.val, foods |-> fs.val], rng |-> fs.rng]
        Animals(as) == Built(as, random_foods(as.rng, cfg.world.num_foods))
    IN Animals(random_animals(r, cfg, cfg.world.num_animals))

\* The number of animals that `boid != *a` keeps.
others_len(world_animals, boid) ==
    Cardinality({i \in 1..Len(world_animals) :
                    ~PointEq(boid.position, world_animals[i].position)})

positions(world_animals) ==
    [i \in 1..Len(world_animals) |-> world_animals[i].position]

\* World::calc_coherence
calc_coherence(world_animals, boid) ==
    LET perceived_center(n) ==
            IF n = 0 THEN boid.position
            ELSE VDivN(VSum(positions(world_animals)), n - 1)
    IN VMulC(VSub(perceived_center(others_len(world_animals, boid)), boid.position),
             1, 100)

\* The fold of calc_separation over the positions from animal i on.
RECURSIVE separation_fold(_, _, _, _)
separation_fold(world_animals, boid_pos, i, acc) ==
    IF i > Len(world_animals)
    THEN acc
    ELSE LET Folded(diff) ==
                 separation_fold(world_animals, boid_pos, i + 1,
                     IF VFinite(diff) /\ NormSq(diff) < 100 * 100
                     THEN VSub(acc, diff) ELSE VSub(acc, VZero))
         IN Folded(VSub(world_animals[i].position, boid_pos))

\* World::calc_separation
calc_separation(world_animals, boid) ==
    IF others_len(world_animals, boid) = 0
    THEN boid.position
    ELSE separation_fold(world_animals, boid.position, 1, VZero)

velocities(world_animals) ==
    [i \in 1..Len(world_animals) |->
        rotate_forward(world_animals[i].rotation, world_animals[i].speed)]

\* World::calc_alignment
calc_alignment(world_animals, boid) ==
    LET perceived_velocity(n) ==
            IF n = 0 THEN boid.position
            ELSE VDivN(VSum(velocities(world_animals)), n - 1)
    IN perceived_velocity(others_len(world_animals, boid))

-----------------------------------------------------------------------------
(* simulation: Simulation *)

\* f32::clamp: panics unless min <= max.
clamp(x, min, max) == IF x < min THEN min ELSE IF x > max THEN max ELSE x

\* The displacement calc_movement's first loop pushes for one animal.
movement_delta(world_animals, animal) ==
    VAdd(VAdd(VMulC(calc_coherence(world_animals, animal), 1, 10),
              VMulC(calc_separation(world_animals, animal), 55, 100)),
         VMulC(calc_alignment(world_animals, animal), 1, 10))

\* velocity.magnitude() > speed, then velocity.normalize() * speed.
limit_velocity(velocity, speed) ==
    IF velocity[1].k = "nan" \/ velocity[2].k = "nan"
    THEN velocity
    ELSE IF velocity[1].k = "inf" \/ velocity[2].k = "inf"
    THEN [c \in 1..2 |-> IF velocity[c].k = "inf" THEN NaN ELSE Fin(0)]
    ELSE IF NormSq(velocity) > speed * speed
    THEN [c \in 1..2 |-> Fin(TruncDiv(velocity[c].v * speed, ISqrt(NormSq(velocity))))]
    ELSE velocity

\* na::wrap(coordinate, 0.0, 1.0); it loops for ever on an infinity.
wrap_coordinate(x) == IF x.k = "fin" THEN Fin(wrap(x.v, 0, Scale)) ELSE x

\* The body of calc_movement's second loop for one animal and its delta.
move_animal_mut(animal, delta) ==
    LET Moved(moved) ==
            [animal EXCEPT
                !.position = <<wrap_coordinate(moved[1]), wrap_coordinate(moved[2])>>]
    IN Moved(VAdd(animal.position,
                  VAdd(delta, rotate_forward(animal.rotation, animal.speed))))
move_animal(animal, delta) ==
    LET Moved(moved) ==
            [animal EXCEPT
                !.position = <<wrap_coordinate(moved[1]), wrap_coordinate(moved[2])>>]
    IN Moved(VAdd(animal.position,
                  limit_velocity(
                      VAdd(delta, rotate_forward(animal.rotation, animal.speed)),
                      animal.speed)))

\* Simulation::calc_movement: every delta is computed on the world as the
\* tick found it.  hang: a coordinate became infinite and na::wrap never
\* returns.
calc_movement_in_place(world_animals) ==
    LET RECURSIVE InPlace(_, _)
        InPlace(animals, i) ==
            IF i > Len(animals) THEN animals
            ELSE InPlace([animals EXCEPT
                             ![i] = move_animal(animals[i],
                                                movement_delta(animals, animals[i]))],
                         i + 1)
        Moved(moved) ==
            [hang |-> \E i \in 1..Len(moved) :
                         \/ moved[i].position[1].k = "inf"
                         \/ moved[i].position[2].k = "inf",
             animals |-> moved]
    IN Moved(InPlace(world_animals, 1))
calc_movement(world_animals) ==
    LET Moved(moved) ==
            [hang |-> \E i \in 1..Len(moved) :
                         \/ moved[i].position[1].k = "inf"
                         \/ moved[i].position[2].k = "inf",
             animals |-> moved]
    IN Moved([i \in 1..Len(world_animals) |->
                 move_animal(world_animals[i],
                             movement_delta(world_animals, world_animals[i]))])

\* The body of calc_brain's loop for one animal.
brain_animal(config, animal, foods) ==
    LET speed(output) == clamp(output[1].v, -config.speed_accel, config.speed_accel)
        angle(output) == clamp(output[2].v, -config.rotation_accel,
                               config.rotation_accel)
        Steered(output) ==
            [animal EXCEPT
                !.speed = clamp(animal.speed + speed(output),
                                config.speed_min, config.speed_max),
                !.rotation = (rotation_angle(animal.rotation)
                                + TruncDiv(angle(output), FRAC_PI_4)) % 8]
    IN Steered(Network_propagate(animal.brain,
                   calc_vision(animal.eye, animal.position, animal.rotation,
                               foods)).val)

\* Simulation::calc_brain
calc_brain(config, world_animals, foods) ==
    [i \in 1..Len(world_animals) |-> brain_animal(config, world_animals[i], foods)]

\* na::distance(&animal.position, &food.position) <= 0.01
colliding_strict(animal, food) ==
    LET Near(diff) == VFinite(diff) /\ NormSq(diff) < 100 * 100
    IN Near(VSub(animal.position, food.position))
colliding(animal, food) ==
    LET Near(diff) == VFinite(diff) /\ NormSq(diff) <= 100 * 100
    IN Near(VSub(animal.position, food.position))

\* calc_collision's inner loop for one animal, from food j on:
\* [animal, foods, rng].
RECURSIVE collide_foods(_, _, _, _)
collide_foods(r, animal, foods, j) ==
    IF j > Len(foods)
    THEN [animal |-> animal, foods |-> foods, rng |-> r]
    ELSE IF colliding(animal, foods[j])
    THEN LET Eaten(p) ==
                 collide_foods(p.rng, [animal EXCEPT !.hunger = @ + 1],
                               [foods EXCEPT ![j].position = p.val], j + 1)
         IN Eaten(gen_point(r))
    ELSE collide_foods(r, animal, foods, j + 1)

\* Simulation::calc_collision from animal i on: [animals, foods, rng].
RECURSIVE calc_collision_from(_, _, _, _)
calc_collision_from(r, world_animals, foods, i) ==
    IF i > Len(world_animals)
    THEN [animals |-> world_animals, foods |-> foods, rng |-> r]
    ELSE LET Collided(c) ==
                 calc_collision_from(c.rng, [world_animals EXCEPT ![i] = c.animal],
                                     c.foods, i + 1)
         IN Collided(collide_foods(r, world_animals[i], foods, 1))

calc_collision(r, world_animals, foods) == calc_collision_from(r, world_animals, foods, 1)

\* The map of new_population through into_animal, from individual i on.
RECURSIVE into_animals(_, _, _, _)
into_animals(r, cfg, new_population, i) ==
    IF i > Len(new_population)
    THEN [val |-> <<>>, rng |-> r]
    ELSE LET Collected(a, rest) == [val |-> <<a.val>> \o rest.val, rng |-> rest.rng]
             Animal(a) == Collected(a, into_animals(a.rng, cfg, new_population, i + 1))
         IN Animal(into_animal(r, cfg, new_population[i]))

\* The loop of evolve that gives every food a new position, from food j on.
RECURSIVE respawn_foods(_, _, _)
respawn_foods(r, foods, j) ==
    IF j > Len(foods)
    THEN [val |-> foods, rng |-> r]
    ELSE LET Placed(p) ==
                 respawn_foods(p.rng, [foods EXCEPT ![j].position = p.val], j + 1)
         IN Placed(gen_point(r))

\* Simulation::evolve on the simulation `self` (its fields as a record):
\* [ok, stats, self, rng].  The fields that hold a position or the deviation
\* of the fitness are written here and read nowhere; they are left out.
Simulation_evolve(r, cfg, self) ==
    LET Respawned(stats, as, fs) ==
            [ok |-> TRUE, stats |-> stats,
             sim |-> [self EXCEPT
                        !.age = 0,
                        !.max_fitness = stats.max_fitness * Scale,
                        !.global_best_fitness =
                            IF stats.max_fitness * Scale > @
                            THEN stats.max_fitness * Scale ELSE @,
                        !.animals = as.val,
                        !.foods = fs.val],
             rng |-> fs.rng]
        Created(stats, as) == Respawned(stats, as, respawn_foods(as.rng, self.foods, 1))
        Evolved(e) ==
            IF ~e.ok
            THEN [ok |-> FALSE, stats |-> <<>>, sim |-> [self EXCEPT !.age = 0],
                  rng |-> e.rng]
            ELSE Created(e.val[2], into_animals(e.rng, cfg, e.val[1], 1))
    IN Evolved(evolve(r, self.ga,
                      [i \in 1..Len(self.animals) |-> from_animal(self.animals[i])]))

\* Whether step runs evolve once `age` has been incremented.
boundary_mut(age, max_generation) == age >= max_generation
boundary(age, max_generation) == age > max_generation

\* Simulation::step: [outcome, stats, entered, sim, rng], where outcome is
\* "Some" or "None" for the Option returned, "panic" when the call panics
\* and "hang" when it never returns; `entered` is the simulation as evolve
\* was entered with it (<<>> when evolve did not run).
step_brain_first(r, cfg, self) ==
    LET Evolved(aged, e) ==
            [outcome |-> IF e.ok THEN "Some" ELSE "panic", stats |-> e.stats,
             entered |-> aged, sim |-> e.sim, rng |-> e.rng]
        Aged(aged, rng) ==
            IF boundary(aged.age, self.config.max_generation)
            THEN Evolved(aged, Simulation_evolve(rng, cfg, aged))
            ELSE [outcome |-> "None", stats |-> <<>>, entered |-> <<>>,
                  sim |-> aged, rng |-> rng]
        Collided(c) ==
            Aged([self EXCEPT !.animals = c.animals, !.foods = c.foods, !.age = @ + 1],
                 c.rng)
        Moved(m) ==
            IF m.hang
            THEN [outcome |-> "hang", stats |-> <<>>, entered |-> <<>>,
                  sim |-> self, rng |-> r]
            ELSE Collided(calc_collision(r, m.animals, self.foods))
    IN Moved(calc_movement(calc_brain(self.config, self.animals, self.foods)))
step(r, cfg, self) ==
    LET Evolved(aged, e) ==
            [outcome |-> IF e.ok THEN "Some" ELSE "panic", stats |-> e.stats,
             entered |-> aged, sim |-> e.sim, rng |-> e.rng]
        Aged(aged, rng) ==
            IF boundary(aged.age, self.config.max_generation)
            THEN Evolved(aged, Simulation_evolve(rng, cfg, aged))
            ELSE [outcome |-> "None", stats |-> <<>>, entered |-> <<>>,
                  sim |-> aged, rng |-> rng]
        Collided(c) ==
            Aged([self EXCEPT !.animals = c.animals, !.foods = c.foods, !.age = @ + 1],
                 c.rng)
        Moved(m) ==
            IF m.hang
            THEN [outcome |-> "hang", stats |-> <<>>, entered |-> <<>>,
                  sim |-> self, rng |-> r]
            ELSE Collided(calc_collision(r,
                              calc_brain(self.config, m.animals, self.foods),
                              self.foods))
    IN Moved(calc_movement(self.animals))

\* Simulation::random
Simulation_random(r, cfg) ==
    LET Built(world) ==
            [val |-> [animals |-> world.val.animals, foods |-> world.val.foods,
                      ga |-> GaussianMutation_new(cfg.simulation.mutation_chance,
                                                  cfg.simulation.mutation_weight).val,
                      age |-> 0, global_best_fitness |-> 0, max_fitness |-> 10,
                      config |-> cfg.simulation],
             rng |-> world.rng]
    IN Built(World_random(r, cfg))

-----------------------------------------------------------------------------
(* Library calls on arbitrary inputs *)

FitnessValues == {-1, 0, 1, 2}

\* Chromosomes whose genes tell their origin: parent and index.
Chromosomes == {<<>>, <<11>>, <<11, 12>>, <<21, 22>>, <<11, 12, 13>>, <<21, 22, 23>>}

\* Populations for select and Statistics::new: only the fitness matters.
FitnessPopulations ==
    {[i \in DOMAIN f |-> [fitness |-> f[i], chromosome |-> <<>>]] :
        f \in SeqUpTo(FitnessValues, MaxPop)}

\* Populations for evolve: every individual has its own genes.
EvolveIndividuals ==
    {[fitness |-> 0, chromosome |-> <<11, 12>>],
     [fitness |-> 1, chromosome |-> <<21, 22>>],
     [fitness |-> 2, chromosome |-> <<31, 32>>]}

Mutations ==
    {[chance |-> <<0, 1>>, magnitude |-> 3000],
     [chance |-> <<1, 2>>, magnitude |-> 3000],
     [chance |-> <<1, 1>>, magnitude |-> 3000],
     [chance |-> <<1, 1>>, magnitude |-> 0],
     [chance |-> <<1, 2>>, magnitude |-> 0]}

NoCall == [op |-> "none"]

\* No simulation is built: the library is called on its own.
InitGA ==
    /\ tape \in Tapes
    /\ cursor = 1
    /\ settings = Config(0)
    /\ sim = [animals |-> <<>>, foods |-> <<>>, age |-> 0, config |-> settings.simulation]
    /\ generation = 0
    /\ pc = "ready"
    /\ call = NoCall

\* The mutation the evolve call is given.
EvolveMutation == [chance |-> <<1, 2>>, magnitude |-> 3000]

CallSelect ==
    /\ pc = "ready"
    /\ \E population \in FitnessPopulations :
         call' = [op |-> "select", population |-> population,
                  res |-> select(RngAt(cursor), population)]
    /\ cursor' = call'.res.rng.cur
    /\ pc' = "done"
    /\ UNCHANGED <<tape, settings, sim, generation>>

CallCrossover ==
    /\ pc = "ready"
    /\ \E parent_a \in Chromosomes, parent_b \in Chromosomes :
         call' = [op |-> "crossover", parent_a |-> parent_a, parent_b |-> parent_b,
                  res |-> crossover(RngAt(cursor), parent_a, parent_b)]
    /\ cursor' = call'.res.rng.cur
    /\ pc' = "done"
    /\ UNCHANGED <<tape, settings, sim, generation>>

CallMutate ==
    /\ pc = "ready"
    /\ \E self \in Mutations, child \in Chromosomes :
         call' = [op |-> "mutate", self |-> self, child |-> child,
                  res |-> mutate(RngAt(cursor), self, child)]
    /\ cursor' = call'.res.rng.cur
    /\ pc' = "done"
    /\ UNCHANGED <<tape, settings, sim, generation>>

CallStatistics ==
    /\ pc = "ready"
    /\ \E population \in FitnessPopulations :
         call' = [op |-> "statistics", population |-> population,
                  res |-> Statistics_new(population)]
    /\ pc' = "done"
    /\ UNCHANGED <<tape, cursor, settings, sim, generation>>

CallEvolve ==
    /\ pc = "ready"
    /\ \E population \in SeqUpTo(EvolveIndividuals, MaxPop) :
         call' = [op |-> "evolve", self |-> EvolveMutation, population |-> population,
                  res |-> evolve(RngAt(cursor), EvolveMutation, population)]
    /\ cursor' = call'.res.rng.cur
    /\ pc' = "done"
    /\ UNCHANGED <<tape, settings, sim, generation>>

NextGA == CallSelect \/ CallCrossover \/ CallMutate \/ CallStatistics \/ CallEvolve

SpecGA == InitGA /\ [][NextGA]_vars

-----------------------------------------------------------------------------
(* The neural network called on arbitrary inputs *)

\* Longest genome handed to Network::from_weights.
MaxGenes == 5
\* Longest input handed to Network::propagate.
MaxInputs == 2

\* Topologies: the neurons of each layer, the input layer first.
Topologies ==
    {<<>>, <<1>>, <<1, 1>>, <<2, 1>>, <<1, 2>>, <<2, 0>>, <<1, 1, 1>>, <<2, 0, 1>>}

\* Genomes whose genes are all different, positive and negative.
Genomes == {[i \in 1..k |-> (i * 3000) - 7000] : k \in 0..MaxGenes}

InputValues == {Fin(-Scale), Fin(5000), NaN}

InitNN ==
    /\ tape \in Tapes
    /\ cursor = 1
    /\ settings = Config(0)
    /\ sim = [animals |-> <<>>, foods |-> <<>>, age |-> 0, config |-> settings.simulation]
    /\ generation = 0
    /\ pc = "ready"
    /\ call = NoCall

\* Network::random(rng, topology); the network is call.res.val.
CallNetworkRandom ==
    /\ pc = "ready"
    /\ \E topology \in Topologies :
         call' = [op |-> "random", topology |-> topology,
                  res |-> Network_random(RngAt(cursor), topology)]
    /\ cursor' = call'.res.rng.cur
    /\ pc' = IF call'.res.ok THEN "built" ELSE "done"
    /\ UNCHANGED <<tape, settings, sim, generation>>

\* Network::from_weights(topology, genome) on any genome.
CallNetworkFromWeights ==
    /\ pc = "ready"
    /\ \E topology \in Topologies, weights \in Genomes :
         call' = [op |-> "from_weights", topology |-> topology, weights |-> weights,
                  net |-> <<>>, round_trip |-> FALSE,
                  res |-> Network_from_weights(topology, weights)]
    /\ pc' = IF call'.res.ok THEN "built" ELSE "done"
    /\ UNCHANGED <<tape, cursor, settings, sim, generation>>

\* net.weights() on the network just built.
CallNetworkWeights ==
    /\ pc = "built"
    /\ call' = [op |-> "weights", topology |-> call.topology, net |-> call.res.val,
                res |-> [ok |-> TRUE, val |-> Network_weights(call.res.val)]]
    /\ pc' = "flat"
    /\ UNCHANGED <<tape, cursor, settings, sim, generation>>

\* Network::from_weights(topology, net.weights()).
CallNetworkRebuild ==
    /\ pc = "flat"
    /\ call' = [op |-> "from_weights", topology |-> call.topology,
                weights |-> call.res.val, net |-> call.net, round_trip |-> TRUE,
                res |-> Network_from_weights(call.topology, call.res.val)]
    /\ pc' = "done"
    /\ UNCHANGED <<tape, cursor, settings, sim, generation>>

\* net.propagate(inputs) on the network just built.
CallNetworkPropagate ==
    /\ pc = "built"
    /\ \E inputs \in SeqUpTo(InputValues, MaxInputs) :
         call' = [op |-> "propagate", topology |-> call.topology, net |-> call.res.val,
                  inputs |-> inputs,
                  res |-> Network_propagate(call.res.val, inputs)]
    /\ pc' = "done"
    /\ UNCHANGED <<tape, cursor, settings, sim, generation>>

NextNN ==
    \/ CallNetworkRandom
    \/ CallNetworkFromWeights
    \/ CallNetworkWeights
    \/ CallNetworkRebuild
    \/ CallNetworkPropagate

SpecNN == InitNN /\ [][NextNN]_vars

-----------------------------------------------------------------------------
(* The eye called on arbitrary finite inputs *)

\* Largest number of foods handed to Eye::calc_vision.
MaxFoodsSeen == 2

\* Coordinates of the agents and foods the eye is tried on.
Coordinates == {0, 2500, 5000}
Points == {<<Fin(x), Fin(y)>> : x \in Coordinates, y \in Coordinates}

\* Arguments of Eye::new: ranges, angles (in units of pi/4) and cell counts.
FovRanges == {0, 5000}
FovAngles == {0, 2, PI, 2 * PI}
CellCounts == {0, 1, 2}

\* No rng is involved: the stream is fixed.
InitEye ==
    /\ tape = [i \in 1..TapeLen |-> 0]
    /\ cursor = 1
    /\ settings = Config(0)
    /\ sim = [animals |-> <<>>, foods |-> <<>>, age |-> 0, config |-> settings.simulation]
    /\ generation = 0
    /\ pc = "ready"
    /\ call = NoCall

\* Eye::new(fov_range, fov_angle, cells); the eye is call.res.val.
CallEyeNew ==
    /\ pc = "ready"
    /\ \E fov_range \in FovRanges, fov_angle \in FovAngles, cells \in CellCounts :
         call' = [op |-> "new", fov_range |-> fov_range, fov_angle |-> fov_angle,
                  cells |-> cells, res |-> Eye_new(fov_range, fov_angle, cells)]
    /\ pc' = IF call'.res.ok THEN "eye" ELSE "done"
    /\ UNCHANGED <<tape, cursor, settings, sim, generation>>

\* eye.calc_vision(position, rotation, foods) on the eye just built.  `seen`
\* keeps, food by food, what the loop body did with the food.
CallCalcVision ==
    /\ pc = "eye"
    /\ \E position \in Points, rotation \in 0..7,
          foods \in SeqUpTo({[position |-> p] : p \in Points}, MaxFoodsSeen) :
         call' = [op |-> "calc_vision", eye |-> call.res.val, position |-> position,
                  rotation |-> rotation, foods |-> foods,
                  seen |-> [i \in 1..Len(foods) |->
                              food_vision(call.res.val, position, rotation,
                                          foods[i].position)],
                  res |-> [ok |-> TRUE,
                           val |-> calc_vision(call.res.val, position, rotation, foods)]]
    /\ pc' = "done"
    /\ UNCHANGED <<tape, cursor, settings, sim, generation>>

NextEye == CallEyeNew \/ CallCalcVision

SpecEye == InitEye /\ [][NextEye]_vars

-----------------------------------------------------------------------------
(* The flocking rules called on arbitrary worlds *)

\* Positions of the worlds' animals: two of them closer than the separation
\* distance of 0.01.
BoidPoints ==
    {<<Fin(0), Fin(0)>>, <<Fin(50), Fin(0)>>, <<Fin(5000), Fin(2500)>>}

\* The animals of the worlds: the rules read position, rotation and speed.
Boids ==
    {[position |-> p, rotation |-> rotation, speed |-> INITIAL_SPEED] :
        p \in BoidPoints, rotation \in {0, 2}}

\* Worlds of one animal or more, with the index of the animal asked about.
Worlds == SeqUpTo(Boids, MaxAnimals) \ {<<>>}

\* No rng is involved: the stream is fixed.
InitWorld ==
    /\ tape = [i \in 1..TapeLen |-> 0]
    /\ cursor = 1
    /\ settings = Config(0)
    /\ sim = [animals |-> <<>>, foods |-> <<>>, age |-> 0, config |-> settings.simulation]
    /\ generation = 0
    /\ pc = "ready"
    /\ call = NoCall

\* world.calc_coherence(&world.animals[boid])
CallCalcCoherence ==
    /\ pc = "ready"
    /\ \E animals \in Worlds : \E boid \in 1..Len(animals) :
         call' = [op |-> "calc_coherence", animals |-> animals, boid |-> boid,
                  res |-> [ok |-> TRUE, val |-> calc_coherence(animals, animals[boid])]]
    /\ pc' = "done"
    /\ UNCHANGED <<tape, cursor, settings, sim, generation>>

\* world.calc_separation(&world.animals[boid])
CallCalcSeparation ==
    /\ pc = "ready"
    /\ \E animals \in Worlds : \E boid \in 1..Len(animals) :
         call' = [op |-> "calc_separation", animals |-> animals, boid |-> boid,
                  res |-> [ok |-> TRUE, val |-> calc_separation(animals, animals[boid])]]
    /\ pc' = "done"
    /\ UNCHANGED <<tape, cursor, settings, sim, generation>>

\* world.calc_alignment(&world.animals[boid])
CallCalcAlignment ==
    /\ pc = "ready"
    /\ \E animals \in Worlds : \E boid \in 1..Len(animals) :
         call' = [op |-> "calc_alignment", animals |-> animals, boid |-> boid,
                  res |-> [ok |-> TRUE, val |-> calc_alignment(animals, animals[boid])]]
    /\ pc' = "done"
    /\ UNCHANGED <<tape, cursor, settings, sim, generation>>

NextWorld == CallCalcCoherence \/ CallCalcSeparation \/ CallCalcAlignment

SpecWorld == InitWorld /\ [][NextWorld]_vars

\* What calc_collision reads and writes of an animal, and of a food.
Eater(x, y, hunger) == [position |-> <<x, y>>, hunger |-> hunger]
Morsel(x, y) == [position |-> <<Fin(x), Fin(y)>>]

\* The animals of the worlds handed to calc_collision: on a food, exactly
\* 0.01 away from it, just further, on the points the random stream can give,
\* and one whose position the flocking rules turned into NaN.
EaterLists ==
    {<<Eater(Fin(0), Fin(0), 0)>>,
     <<Eater(Fin(100), Fin(0), 2)>>,
     <<Eater(Fin(101), Fin(0), 0)>>,
     <<Eater(Fin(0), Fin(0), 0), Eater(Fin(0), Fin(0), 2)>>,
     <<Eater(Fin(0), Fin(0), 1), Eater(Fin(3333), Fin(3333), 0)>>,
     <<Eater(Fin(3333), Fin(3333), 0), Eater(Fin(0), Fin(0), 0)>>,
     <<Eater(NaN, Fin(0), 0), Eater(Fin(0), Fin(0), 0)>>,
     <<Eater(Fin(0), Fin(0), 0), Eater(Fin(6666), Fin(0), 0), Eater(Fin(60), Fin(80), 0)>>}

\* Their foods.
MorselLists ==
    {<<>>,
     <<Morsel(0, 0)>>,
     <<Morsel(0, 0), Morsel(0, 0)>>,
     <<Morsel(3333, 3333), Morsel(0, 0)>>,
     <<Morsel(0, 0), Morsel(6666, 0)>>}

InitCollision ==
    /\ tape \in Tapes
    /\ cursor = 1
    /\ settings = Config(0)
    /\ sim = [animals |-> <<>>, foods |-> <<>>, age |-> 0, config |-> settings.simulation]
    /\ generation = 0
    /\ pc = "ready"
    /\ call = NoCall

\* simulation.calc_collision(rng) on a world of these animals and foods.
CallCalcCollision ==
    /\ pc = "ready"
    /\ \E animals \in EaterLists : \E foods \in MorselLists :
         call' = [op |-> "calc_collision", animals |-> animals, foods |-> foods,
                  res |-> calc_collision(RngAt(cursor), animals, foods)]
    /\ cursor' = call'.res.rng.cur
    /\ pc' = "done"
    /\ UNCHANGED <<tape, settings, sim, generation>>

NextCollision == CallCalcCollision

SpecCollision == InitCollision /\ [][NextCollision]_vars

-----------------------------------------------------------------------------
(* The simulation driven by its caller *)

\* The configurations the caller may construct the simulation with: the
\* default one for every number of animals, and one whose config.toml sets
\* speed_max to 0.001, below the speed every new animal is given.
Configs ==
    {Config(num_animals) : num_animals \in 1..MaxAnimals}
        \cup {[Config(1) EXCEPT !.simulation.speed_max = 10]}

Init ==
    /\ tape \in Tapes
    /\ settings \in Configs
    /\ call = [op |-> "random", res |-> Simulation_random(RngAt(1), settings)]
    /\ sim = call.res.val
    /\ cursor = call.res.rng.cur
    /\ generation = 0
    /\ pc = "idle"

\* One call of step on behalf of `op`: `before` keeps the simulation as the
\* call found it, `res` what step did, and `nth` counts the calls of step
\* since the construction or since the last call that returned Some.
RunStep(op) ==
    /\ call' = [op |-> op, before |-> sim,
                nth |-> IF call.op = "random" THEN 1
                        ELSE IF call.res.outcome = "Some" THEN 1
                        ELSE call.nth + 1,
                res |-> step(RngAt(cursor), settings, sim)]
    /\ sim' = call'.res.sim
    /\ cursor' = call'.res.rng.cur
    /\ generation' = IF call'.res.outcome = "Some" THEN generation + 1 ELSE generation
    /\ pc' = CASE call'.res.outcome = "panic" -> "panicked"
               [] call'.res.outcome = "hang" -> "hung"
               [] call'.res.outcome = "None" /\ op = "fast_forward" -> "fast_forward"
               [] OTHER -> "idle"
    /\ UNCHANGED <<tape, settings>>

\* The caller calls step.
StepCall ==
    /\ pc = "idle"
    /\ generation < MaxEvolves
    /\ RunStep("step")

\* The caller calls fast_forward: the first iteration of its loop.
FastForwardCall ==
    /\ pc = "idle"
    /\ generation < MaxEvolves
    /\ RunStep("fast_forward")

\* A further iteration of fast_forward's loop.
FastForwardLoop ==
    /\ pc = "fast_forward"
    /\ RunStep("fast_forward")

Next == StepCall \/ FastForwardCall \/ FastForwardLoop

Spec == Init /\ [][Next]_vars

-----------------------------------------------------------------------------
(* Claims about Simulation::step and Simulation::fast_forward (Spec) *)

\* The last call was a call of step, by the caller or by fast_forward's loop.
StepCalled == call.op \in {"step", "fast_forward"}

\* The tick of the last call was a boundary tick: age after the increment
\* exceeded max_generation.
BoundaryTick == call.before.age + 1 > call.before.config.max_generation

\* C1: a call of step returns Some exactly when the call ran the generational
\* evolve, that is when age after the increment exceeded max_generation, and
\* returns None on every other call.
C1_SomeExactlyOnBoundary ==
    StepCalled =>
        /\ BoundaryTick => call.res.outcome = "Some"
        /\ ~BoundaryTick => call.res.outcome = "None"

\* C2: fast_forward never fails and never returns before a boundary: every
\* iteration of its loop completes, an iteration that is not a boundary tick
\* leaves age one larger, and when fast_forward has returned, the value is
\* the Statistics of a boundary tick.
C2_FastForwardReturnsAtBoundary ==
    call.op = "fast_forward" =>
        /\ call.res.outcome \in {"Some", "None"}
        /\ call.res.outcome = "None" => sim.age = call.before.age + 1
        /\ pc = "idle" => call.res.outcome = "Some" /\ BoundaryTick

\* The value read from the random stream m reads ago (m = 1: the last read).
DrawnBefore(m) == tape[((cursor - 1 - m) % TapeLen) + 1]

\* The point made of the values read m and m - 1 reads ago.
PointDrawnBefore(m) ==
    <<Fin((DrawnBefore(m) * Scale) \div RawN), Fin((DrawnBefore(m - 1) * Scale) \div RawN)>>

\* C3: after every step call that returns Statistics, age is 0, every animal
\* has hunger 0, the number of foods is unchanged and every food sits at a
\* position drawn from the random stream at the end of that call (the last
\* two values read are the last food's position).
C3_BoundaryResetsWorld ==
    StepCalled /\ call.res.outcome = "Some" =>
        /\ sim.age = 0
        /\ \A i \in 1..Len(sim.animals) : sim.animals[i].hunger = 0
        /\ Len(sim.foods) = Len(call.before.foods)
        /\ \A j \in 1..Len(sim.foods) :
             sim.foods[j].position = PointDrawnBefore(2 * (Len(sim.foods) - j) + 2)

\* A step call returned Statistics for a generation in which an animal had
\* eaten, and at least one food moved.
C3_Witness ==
    /\ StepCalled
    /\ call.res.outcome = "Some"
    /\ \E i \in 1..Len(call.res.entered.animals) :
         call.res.entered.animals[i].hunger > 0
    /\ \E j \in 1..Len(sim.foods) :
         sim.foods[j].position # call.res.entered.foods[j].position

\* C7: when a generation boundary is reached with every animal's hunger equal
\* to 0, step still completes, produces a new population and returns
\* Statistics.
C7_ZeroFitnessBoundaryCompletes ==
    /\ StepCalled
    /\ call.res.outcome \in {"Some", "panic"}
    /\ \A i \in 1..Len(call.res.entered.animals) :
         call.res.entered.animals[i].hunger = 0
    => /\ call.res.outcome = "Some"
       /\ Len(sim.animals) = Len(call.res.entered.animals)

-----------------------------------------------------------------------------
(* Claims about the genetic algorithm (SpecGA) *)

\* C4: for every non-empty input population of size N, evolve returns a new
\* population of exactly N individuals.
C4_EvolveKeepsSize ==
    call.op = "evolve" /\ Len(call.population) > 0 =>
        call.res.ok /\ Len(call.res.val[1]) = Len(call.population)

FitnessSet(population) == {population[i].fitness : i \in 1..Len(population)}
MinOf(S) == CHOOSE m \in S : \A x \in S : m <= x
MaxOf(S) == CHOOSE m \in S : \A x \in S : m >= x

\* `stats` holds the minimum, the maximum and the average (sum over N) of the
\* fitnesses of `population`, and min <= avg <= max.
StatisticsOf(stats, population) ==
    /\ stats.min_fitness = MinOf(FitnessSet(population))
    /\ stats.max_fitness = MaxOf(FitnessSet(population))
    /\ stats.avg_fitness = <<SumSeq(fitnesses(population)), Len(population)>>
    /\ stats.min_fitness * stats.avg_fitness[2] <= stats.avg_fitness[1]
    /\ stats.avg_fitness[1] <= stats.max_fitness * stats.avg_fitness[2]

\* C5: the Statistics evolve returns are those of the input population, not
\* of the new one: min_fitness and max_fitness are the minimum and maximum
\* input fitness, avg_fitness is their sum divided by N, and
\* min_fitness <= avg_fitness <= max_fitness; so for Statistics::new itself.
C5_StatisticsOverInput ==
    /\ call.op = "statistics" /\ Len(call.population) > 0 =>
         call.res.ok /\ StatisticsOf(call.res.val, call.population)
    /\ call.op = "evolve" /\ call.res.ok =>
         StatisticsOf(call.res.val[2], call.population)

\* evolve returned the Statistics of an input population whose fitnesses
\* differ and are all positive, while every new individual has fitness 0.
C5_Witness ==
    /\ call.op = "evolve"
    /\ call.res.ok
    /\ 0 < call.res.val[2].min_fitness
    /\ call.res.val[2].min_fitness < call.res.val[2].max_fitness
    /\ \A i \in 1..Len(call.res.val[1]) : call.res.val[1][i].fitness = 0

\* The steps of one output slot in the order the claim gives them.
SlotOrder == <<"select", "select", "crossover", "mutate", "create">>

\* The steps `slot` lists are a prefix of SlotOrder, every selection was
\* handed the whole `population`, crossover was handed the chromosomes of
\* the two selected individuals, mutate the child of crossover and create
\* the mutated child; each step began after the one before it had read its
\* values (one per selection, one per gene in crossover).
SlotInOrder(slot, population) ==
    /\ Len(slot) <= Len(SlotOrder)
    /\ \A k \in 1..Len(slot) : slot[k].step = SlotOrder[k]
    /\ \A k \in 1..Min2(Len(slot), 2) : slot[k].population = population
    /\ Len(slot) >= 2 => slot[2].at = slot[1].at + 1
    /\ Len(slot) >= 3 =>
         /\ slot[3].at = slot[2].at + 1
         /\ slot[3].parent_a = population[slot[1].index].chromosome
         /\ slot[3].parent_b = population[slot[2].index].chromosome
    /\ Len(slot) >= 4 =>
         /\ slot[4].at = slot[3].at + Len(slot[3].parent_a)
         /\ slot[4].child = slot[3].child
    /\ Len(slot) >= 5 =>
         /\ slot[5].at >= slot[4].at
         /\ slot[5].child = slot[4].mutated

\* C6: for each output slot evolve selects parent A, selects parent B,
\* crosses them over, mutates the child and creates the individual from it,
\* in this order; both selections of every slot are handed the complete,
\* unmodified input population; a returning evolve ran all five steps for
\* each of the N slots, one slot after the other.
C6_EvolveSlotOrder ==
    call.op = "evolve" =>
        /\ \A s \in 1..Len(call.res.log) : SlotInOrder(call.res.log[s], call.population)
        /\ \A s \in 1..(Len(call.res.log) - 1) :
             /\ Len(call.res.log[s]) = Len(SlotOrder)
             /\ Len(call.res.log[s + 1]) > 0 =>
                  call.res.log[s + 1][1].at >= call.res.log[s][5].at
        /\ call.res.ok =>
             /\ Len(call.res.log) = Len(call.population)
             /\ \A s \in 1..Len(call.res.log) :
                  /\ Len(call.res.log[s]) = Len(SlotOrder)
                  /\ call.res.val[1][s] = [fitness |-> 0,
                                           chromosome |-> call.res.log[s][5].child]

\* evolve returned for a population of several individuals, having chosen
\* one individual as both parents of a slot and one individual as parent A
\* of two slots.
C6_Witness ==
    /\ call.op = "evolve"
    /\ call.res.ok
    /\ Len(call.population) >= 2
    /\ \E s \in 1..Len(call.res.log) :
         call.res.log[s][1].index = call.res.log[s][2].index
    /\ \E s, t \in 1..Len(call.res.log) :
         s # t /\ call.res.log[s][1].index = call.res.log[t][1].index

\* C8: select fails, returning no individual, on an empty population and on
\* a population whose fitnesses are all non-positive; evolve fails on an
\* empty population before it selects anything.  Neither reads the random
\* stream.
C8_SelectFailsWithoutWeight ==
    /\ /\ call.op = "select"
       /\ \A i \in 1..Len(call.population) : call.population[i].fitness <= 0
       => ~call.res.ok /\ call.res.rng.n = 0
    /\ call.op = "evolve" /\ Len(call.population) = 0 =>
         ~call.res.ok /\ call.res.log = <<>> /\ call.res.rng.n = 0

\* select was called on a population of several individuals, all of fitness
\* 0, and failed.
C8_Witness ==
    /\ call.op = "select"
    /\ Len(call.population) >= 2
    /\ \A i \in 1..Len(call.population) : call.population[i].fitness = 0
    /\ ~call.res.ok

\* The sum of the first i weights.
PrefixSum(w, i) == SumSeq(SubSeq(w, 1, i))

\* select returned the individual on whose share of the wheel the sample
\* fell: the sample is total * raw / RawN for the value `raw` just read, and
\* individual i owns [PrefixSum(w, i - 1), PrefixSum(w, i)).  Every
\* individual owns as many of the wheel's unit intervals as its fitness, so
\* an individual of fitness 0 owns nothing.
SelectedByWeight(w, index) ==
    /\ index \in 1..Len(w)
    /\ PrefixSum(w, index - 1) * RawN <= SumSeq(w) * DrawnBefore(1)
    /\ SumSeq(w) * DrawnBefore(1) < PrefixSum(w, index) * RawN
    /\ w[index] > 0
    /\ \A i \in 1..Len(w) :
         Cardinality({c \in 0..(SumSeq(w) - 1) : partition_point(w, c, 1) = i}) = w[i]

\* C9 as claimed: on a non-empty population with positive total fitness,
\* select returns a member drawn with weight proportional to its fitness.
C9_PositiveTotalSelects ==
    /\ call.op = "select"
    /\ Len(call.population) > 0
    /\ SumSeq(fitnesses(call.population)) > 0
    => /\ call.res.ok
       /\ SelectedByWeight(fitnesses(call.population), call.res.val)

\* C9 (amended): on a non-empty population with no negative fitness and a
\* positive total fitness, select reads one value and returns a member drawn
\* with weight proportional to its fitness: every individual with positive
\* fitness can be returned and one with fitness 0 never is.
C9_NonNegativeSelects ==
    /\ call.op = "select"
    /\ Len(call.population) > 0
    /\ \A i \in 1..Len(call.population) : call.population[i].fitness >= 0
    /\ SumSeq(fitnesses(call.population)) > 0
    => /\ call.res.ok
       /\ call.res.rng.n = 1
       /\ SelectedByWeight(fitnesses(call.population), call.res.val)

\* select returned the last individual of a population that also holds an
\* individual of fitness 0 and has no negative fitness.
C9_Witness ==
    /\ call.op = "select"
    /\ call.res.ok
    /\ Len(call.population) >= 2
    /\ call.res.val = Len(call.population)
    /\ \A i \in 1..Len(call.population) : call.population[i].fitness >= 0
    /\ \E i \in 1..Len(call.population) : call.population[i].fitness = 0

\* C10: on parents of equal length L crossover returns a child of length L
\* whose gene i is parent_a[i] or parent_b[i], having read exactly one value
\* per gene; on parents of different lengths it fails and returns no child.
C10_CrossoverGeneByGene ==
    call.op = "crossover" =>
        IF Len(call.parent_a) = Len(call.parent_b)
        THEN /\ call.res.ok
             /\ Len(call.res.val) = Len(call.parent_a)
             /\ \A i \in 1..Len(call.res.val) :
                  call.res.val[i] \in {call.parent_a[i], call.parent_b[i]}
             /\ call.res.rng.n = Len(call.parent_a)
        ELSE ~call.res.ok

\* crossover returned a child that took a gene from each of two different
\* parents.
C10_Witness ==
    /\ call.op = "crossover"
    /\ call.res.ok
    /\ \E i, j \in 1..Len(call.res.val) :
         /\ call.res.val[i] = call.parent_a[i] /\ call.res.val[i] # call.parent_b[i]
         /\ call.res.val[j] = call.parent_b[j] /\ call.res.val[j] # call.parent_a[j]

-----------------------------------------------------------------------------
(* Claims about GaussianMutation::mutate (SpecGA) *)

\* The k-th value (k = 0 for the first) the last call read from the stream.
DrawnAt(k) == DrawnBefore(call.res.rng.n - k)

\* C11: mutate leaves the chromosome identical, gene for gene, when chance
\* is 0 (whatever the magnitude) and when magnitude is 0 (whatever the
\* chance); it never changes the chromosome's length.
C11_MutateIdentity ==
    call.op = "mutate" =>
        /\ Len(call.res.val) = Len(call.child)
        /\ call.self.chance[1] = 0 \/ call.self.magnitude = 0 =>
             call.res.val = call.child

\* mutate with chance 1 and magnitude 0 perturbed a gene with a non-zero
\* sample and returned the chromosome it was given.
C11_Witness ==
    /\ call.op = "mutate"
    /\ call.self.chance = <<1, 1>>
    /\ call.self.magnitude = 0
    /\ \E i \in 1..Len(call.child) :
         Len(call.res.log[i]) = 3 /\ call.res.log[i][3].u > 0
    /\ call.res.val = call.child

\* C12 as claimed: with chance 1 and magnitude > 0, mutate changes every
\* gene, for every random stream.
C12_EveryGeneChanges ==
    /\ call.op = "mutate"
    /\ call.self.chance = <<1, 1>>
    /\ call.self.magnitude > 0
    => \A i \in 1..Len(call.child) : call.res.val[i] # call.child[i]

\* The sign and the sample of gene i when every gene takes two values from
\* the stream: the sign's, then the sample's.
SignOfGene(i) == IF DrawnAt(2 * (i - 1)) * 2 < RawN THEN -Scale ELSE Scale
SampleOfGene(i) == (DrawnAt(2 * (i - 1) + 1) * Scale) \div RawN

\* C12 (amended): with chance 1 and magnitude > 0, mutate adds
\* magnitude * sign * U to every gene, sign and U being the two values the
\* gene reads from the stream; a gene changes only if its U is not 0.
C12_EveryGenePerturbed ==
    /\ call.op = "mutate"
    /\ call.self.chance = <<1, 1>>
    /\ call.self.magnitude > 0
    => /\ call.res.rng.n = 2 * Len(call.child)
       /\ \A i \in 1..Len(call.child) :
            /\ call.res.val[i] = call.child[i]
                 + FMul(FMul(call.self.magnitude, SignOfGene(i)), SampleOfGene(i))
            /\ call.res.val[i] # call.child[i] => SampleOfGene(i) # 0
            /\ SampleOfGene(i) = 0 => call.res.val[i] = call.child[i]

\* mutate with chance 1 and magnitude > 0 changed one gene and left another,
\* whose sample was 0, as it was.
C12_Witness ==
    /\ call.op = "mutate"
    /\ call.self.chance = <<1, 1>>
    /\ call.self.magnitude > 0
    /\ \E i, k \in 1..Len(call.child) :
         /\ call.res.val[i] # call.child[i]
         /\ call.res.val[k] = call.child[k]
         /\ SampleOfGene(k) = 0

\* C13 as claimed: for every gene mutate reads the value for the sign, then
\* the value for the decision, then the value for the magnitude, whatever
\* the decision: three values per gene.
C13_ThreeDrawsPerGene ==
    call.op = "mutate" =>
        /\ call.res.rng.n = 3 * Len(call.child)
        /\ \A i \in 1..Len(call.child) :
             /\ Len(call.res.log[i]) = 3
             /\ \A k \in 1..3 : call.res.log[i][k].at = 3 * (i - 1) + (k - 1)

\* The number of values the decision reads: none when chance is 1.
DecisionDraws == IF call.self.chance[1] = call.self.chance[2] THEN 0 ELSE 1

\* The number of values read once gene i is done.
ReadAfterGene(i) ==
    IF i = 0 THEN 0
    ELSE IF Len(call.res.log[i]) = 3 THEN call.res.log[i][3].at + 1
    ELSE call.res.log[i][2].at + DecisionDraws

\* C13 (amended): for every gene mutate reads the value for the sign, then
\* decides (reading a value unless chance is 1), then reads the value for
\* the magnitude only if the decision is to perturb; the genes follow one
\* another, so the number of values one call reads is one per gene for the
\* sign, one per gene for the decision unless chance is 1, and one per
\* perturbed gene.
C13_DrawsFollowDecisions ==
    call.op = "mutate" =>
        /\ Len(call.res.log) = Len(call.child)
        /\ \A i \in 1..Len(call.child) :
             LET gene == call.res.log[i] IN
             /\ Len(gene) \in {2, 3}
             /\ gene[1].draw = "sign"
             /\ gene[1].at = ReadAfterGene(i - 1)
             /\ gene[1].sign = IF DrawnAt(gene[1].at) * 2 < RawN THEN -Scale ELSE Scale
             /\ gene[2].draw = "decision"
             /\ gene[2].at = gene[1].at + 1
             /\ gene[2].perturb =
                  (\/ DecisionDraws = 0
                   \/ DrawnAt(gene[2].at) * call.self.chance[2] < call.self.chance[1] * RawN)
             /\ Len(gene) = 3 <=> gene[2].perturb
             /\ Len(gene) = 3 =>
                  /\ gene[3].draw = "magnitude"
                  /\ gene[3].at = gene[2].at + DecisionDraws
                  /\ gene[3].u = (DrawnAt(gene[3].at) * Scale) \div RawN
        /\ call.res.rng.n = ReadAfterGene(Len(call.child))
        /\ call.res.rng.n =
             Len(call.child) * (1 + DecisionDraws)
               + Cardinality({i \in 1..Len(call.child) : call.res.log[i][2].perturb})

\* Two calls' worth in one: mutate perturbed one gene and left another
\* unperturbed, so the two genes read different numbers of values.
C13_Witness ==
    /\ call.op = "mutate"
    /\ \E i, j \in 1..Len(call.child) :
         /\ Len(call.res.log[i]) = 3
         /\ Len(call.res.log[j]) = 2
    /\ call.res.rng.n < 3 * Len(call.child)

-----------------------------------------------------------------------------
(* Claims about the neural network (SpecNN) *)

\* The number of genes of a layer: per neuron the bias and the weights.
LayerGenes(layer) == SumSeq([j \in 1..Len(layer) |-> 1 + Len(layer[j].weights)])

\* The number of genes before those of neuron j of layer l.
GenesBefore(net, l, j) ==
    SumSeq([k \in 1..(l - 1) |-> LayerGenes(net[k])])
      + SumSeq([k \in 1..(j - 1) |-> 1 + Len(net[l][k].weights)])

\* `w` lists, layer by layer and neuron by neuron, the bias and then the
\* weights of every neuron of `net`, and nothing else.
WeightsInOrder(net, w) ==
    /\ Len(w) = SumSeq([k \in 1..Len(net) |-> LayerGenes(net[k])])
    /\ \A l \in 1..Len(net) : \A j \in 1..Len(net[l]) :
         /\ w[GenesBefore(net, l, j) + 1] = net[l][j].bias
         /\ \A i \in 1..Len(net[l][j].weights) :
              w[GenesBefore(net, l, j) + 1 + i] = net[l][j].weights[i]

\* `net` has the shape of `topology`: a layer per topology layer but the
\* first, with that layer's neurons, each with a weight per neuron of the
\* layer before.
ShapedAs(net, topology) ==
    /\ Len(net) = Len(topology) - 1
    /\ \A l \in 1..Len(net) :
         /\ Len(net[l]) = topology[l + 1]
         /\ \A j \in 1..Len(net[l]) : Len(net[l][j].weights) = topology[l]

\* C14: for every topology of at least two layers and every network net
\* built for it, net.weights() lists the bias and then the weights of each
\* neuron, layer by layer and neuron by neuron, and
\* from_weights(topology, net.weights()) is net again.
C14_RoundTrip ==
    /\ call.op = "weights" /\ Len(call.topology) >= 2 =>
         /\ ShapedAs(call.net, call.topology)
         /\ WeightsInOrder(call.net, call.res.val)
    /\ call.op = "from_weights" /\ call.round_trip /\ Len(call.topology) >= 2 =>
         /\ call.res.ok
         /\ call.res.val = call.net

\* A network of two layers of neurons, with a neuron whose bias differs
\* from its weight, was rebuilt from its own weights.
C14_Witness ==
    /\ call.op = "from_weights"
    /\ call.round_trip
    /\ Len(call.topology) = 3
    /\ call.res.ok
    /\ \E l \in 1..Len(call.net) : \E j \in 1..Len(call.net[l]) :
         /\ Len(call.net[l][j].weights) > 0
         /\ call.net[l][j].bias # call.net[l][j].weights[1]

\* The genes a topology needs: over the layers but the first,
\* layer_size * (1 + previous_layer_size).
RequiredGenes(topology) ==
    SumSeq([i \in 1..(Len(topology) - 1) |-> topology[i + 1] * (1 + topology[i])])

\* C15: from_weights succeeds exactly when the genome has the length the
\* topology needs; it fails on a shorter genome and on a longer one, and
\* the network it builds holds every gene of the genome, in order.
C15_StrictLengthMatch ==
    call.op = "from_weights" =>
        /\ call.res.ok <=> Len(call.weights) = RequiredGenes(call.topology)
        /\ call.res.ok =>
             /\ ShapedAs(call.res.val, call.topology) \/ Len(call.topology) = 0
             /\ WeightsInOrder(call.res.val, call.weights)

\* from_weights failed on a genome one gene longer than the topology needs.
C15_Witness ==
    /\ call.op = "from_weights"
    /\ ~call.res.ok
    /\ RequiredGenes(call.topology) >= 3
    /\ Len(call.weights) = RequiredGenes(call.topology) + 1

\* Some neuron's weight count differs from the length of its layer's input.
Mismatch(net, inputs) ==
    \E l \in 1..Len(net) : \E j \in 1..Len(net[l]) :
       Len(net[l][j].weights) # (IF l = 1 THEN Len(inputs) ELSE Len(net[l - 1]))

\* max(0, bias + sum of input_i * weight_i) for finite inputs.
Activation(neuron, inputs) ==
    Max2(0, neuron.bias
              + SumSeq([i \in 1..Len(inputs) |-> FMul(inputs[i].v, neuron.weights[i])]))

\* The input fed through the layers in order.
RECURSIVE Forward(_, _)
Forward(layers, inputs) ==
    IF layers = <<>> THEN inputs
    ELSE Forward(Tail(layers),
                 [j \in 1..Len(Head(layers)) |-> Fin(Activation(Head(layers)[j], inputs))])

AllFinite(inputs) == \A i \in 1..Len(inputs) : inputs[i].k = "fin"

-----------------------------------------------------------------------------
(* Claims about Eye::calc_vision (SpecEye) *)

\* The squared distance between two finite points.
DistSq(p, q) ==
    (q[1].v - p[1].v) * (q[1].v - p[1].v) + (q[2].v - p[2].v) * (q[2].v - p[2].v)

\* Food i of the last call is at a distance strictly less than fov_range.
Near(i) ==
    DistSq(call.position, call.foods[i].position) < call.eye.fov_range * call.eye.fov_range

\* (fov_range - d) / fov_range for food i of the last call.
EnergyOf(i) ==
    ((call.eye.fov_range - ISqrt(DistSq(call.position, call.foods[i].position))) * Scale)
        \div call.eye.fov_range

\* The angle of food i relative to the agent's rotation, wrapped into
\* [-pi, pi], in half units of pi/4; fov_angle / 2 is eye.fov_angle of them.
RelAngle(i) ==
    wrap(angle_from_y(VSub(call.foods[i].position, call.position))
           - 2 * rotation_angle(call.rotation), -2 * PI, 2 * PI)

\* C17: calc_vision counts a food only when its distance from the agent is
\* strictly less than fov_range: a food at fov_range or farther adds nothing
\* to any cell, whatever its angle; a counted food at distance d adds
\* (fov_range - d) / fov_range, a value in (0, 1], to one cell; every cell
\* holds the sum of what its foods add, with no upper clamp.
C17_StrictRange ==
    call.op = "calc_vision" =>
        /\ \A i \in 1..Len(call.foods) :
             /\ ~Near(i) => call.seen[i].cell = 0
             /\ call.seen[i].cell # 0 =>
                  /\ Near(i)
                  /\ call.seen[i].energy = Fin(EnergyOf(i))
                  /\ 0 < EnergyOf(i) /\ EnergyOf(i) <= Scale
        /\ \A c \in 1..call.eye.cells :
             call.res.val[c] =
                 Fin(SumSeq([i \in 1..Len(call.foods) |->
                               IF call.seen[i].cell = c THEN call.seen[i].energy.v
                               ELSE 0]))
        /\ (\A i \in 1..Len(call.foods) : ~Near(i)) =>
             \A c \in 1..call.eye.cells : call.res.val[c] = Fin(0)

\* calc_vision skipped a food exactly at fov_range, straight ahead, and
\* counted another food, which it added to a cell.
C17_Witness ==
    /\ call.op = "calc_vision"
    /\ \E i, j \in 1..Len(call.foods) :
         /\ DistSq(call.position, call.foods[i].position)
              = call.eye.fov_range * call.eye.fov_range
         /\ RelAngle(i) = 0
         /\ call.seen[i].cell = 0
         /\ call.seen[j].cell # 0
         /\ call.res.val[call.seen[j].cell].v > 0

\* C18: calc_vision returns exactly `cells` entries, and for every food it
\* keeps (wrapped relative angle within [-fov_angle/2, fov_angle/2]) the
\* cell it writes is one of the `cells` cells: a food exactly at the upper
\* boundary goes to the last cell and a food exactly at the lower boundary
\* to the first.  (Cells are counted from 1 here; 0 means skipped.)
C18_CellInRange ==
    call.op = "calc_vision" =>
        /\ Len(call.res.val) = call.eye.cells
        /\ \A i \in 1..Len(call.foods) :
             /\ call.seen[i].cell \in 0..call.eye.cells
             /\ Near(i) /\ -call.eye.fov_angle <= RelAngle(i)
                        /\ RelAngle(i) <= call.eye.fov_angle =>
                  call.seen[i].cell \in 1..call.eye.cells
             /\ Near(i) /\ RelAngle(i) = call.eye.fov_angle =>
                  call.seen[i].cell = call.eye.cells
             /\ Near(i) /\ RelAngle(i) = -call.eye.fov_angle =>
                  call.seen[i].cell = 1

\* An eye of two cells kept a food exactly at the upper boundary of its
\* field of view, in the last cell, and a food exactly at the lower one, in
\* the first cell.
C18_Witness ==
    /\ call.op = "calc_vision"
    /\ call.eye.cells = 2
    /\ \E i, j \in 1..Len(call.foods) :
         /\ Near(i) /\ RelAngle(i) = call.eye.fov_angle
         /\ call.seen[i].cell = 2
         /\ call.res.val[2].v > 0
         /\ Near(j) /\ RelAngle(j) = -call.eye.fov_angle
         /\ call.seen[j].cell = 1
         /\ call.res.val[1].v > 0

-----------------------------------------------------------------------------
(* Claims about the flocking rules (SpecWorld) *)

\* C19: in a world with exactly one agent, the coherence force and the
\* separation force computed for that agent are the zero vector, wherever
\* the agent is.
C19_LoneAgentNoForce ==
    /\ call.op \in {"calc_coherence", "calc_separation"}
    /\ Len(call.animals) = 1
    => call.res.val = VZero

\* The agents of the last call other than the one asked about.
OtherAgents == (1..Len(call.animals)) \ {call.boid}

\* The sum of coordinate c of the other agents' positions.
RECURSIVE SumOver(_, _)
SumOver(S, c) ==
    IF S = {} THEN 0
    ELSE LET i == CHOOSE i \in S : TRUE
         IN call.animals[i].position[c].v + SumOver(S \ {i}, c)

\* Coordinate c of (centroid of the other agents - p) / 100.
TowardCentroid(c) ==
    TruncDiv(TruncDiv(SumOver(OtherAgents, c), Cardinality(OtherAgents))
               - call.animals[call.boid].position[c].v, 100)

\* C20: for an agent with at least one other agent in the world,
\* calc_coherence returns (c - p) / 100, p being the agent's position and c
\* the sum of the other agents' positions divided by their number.
C20_CoherenceTowardCentroid ==
    /\ call.op = "calc_coherence"
    /\ Len(call.animals) >= 2
    => call.res.val = <<Fin(TowardCentroid(1)), Fin(TowardCentroid(2))>>

\* C21: for every world with one agent or more, calc_coherence and
\* calc_alignment divide by no zero: what they return has two finite
\* coordinates, neither NaN nor an infinity.
C21_FlockingFinite ==
    call.op \in {"calc_coherence", "calc_alignment"} => VFinite(call.res.val)

-----------------------------------------------------------------------------
(* Claims about the phases of a tick (Spec) *)

\* The last call of step got through its phases: it returned, or it panicked
\* inside evolve.
StepCompleted == StepCalled /\ call.res.outcome \in {"None", "Some", "panic"}

\* The simulation as the first four phases of the last call left it: what
\* evolve was entered with on a boundary tick, what step left otherwise.
AfterPhases ==
    IF call.res.outcome = "None" THEN call.res.sim ELSE call.res.entered

\* The animals of the last call as the movement phase alone leaves them.
MovedAnimals == calc_movement(call.before.animals).animals

\* Animal i of the last call is the first whose hunger the call raised.
FirstToEat(i) ==
    /\ AfterPhases.animals[i].hunger > call.before.animals[i].hunger
    /\ \A j \in 1..(i - 1) :
         AfterPhases.animals[j].hunger = call.before.animals[j].hunger

\* C23: every step runs movement, then brain, then collision, then the age
\* increment, then the boundary test and the evolve.  Positions are those of
\* the movement computed with the rotations and speeds the tick started
\* with; speed and rotation are what the brain makes of the vision at the
\* moved position and of the foods before any is eaten; the first animal to
\* eat is one whose moved position touches a food; evolve runs exactly when
\* the incremented age exceeds max_generation and is entered with that age
\* and with the hunger of this tick's collisions.
C23_PhasesInOrder ==
    StepCompleted =>
        LET movedAnimals == MovedAnimals
        IN /\ Len(AfterPhases.animals) = Len(call.before.animals)
           /\ \A i \in 1..Len(call.before.animals) :
                LET after == AfterPhases.animals[i]
                    moved == movedAnimals[i]
                IN /\ after.position = moved.position
                   /\ [speed |-> after.speed, rotation |-> after.rotation]
                        = (LET Of(steered) ==
                                   [speed |-> steered.speed,
                                    rotation |-> steered.rotation]
                           IN Of(brain_animal(call.before.config, moved,
                                              call.before.foods)))
                   /\ (\A j \in 1..(i - 1) :
                          AfterPhases.animals[j].hunger
                              = call.before.animals[j].hunger)
                      => (after.hunger > call.before.animals[i].hunger
                            <=> \E f \in 1..Len(call.before.foods) :
                                   colliding(moved, call.before.foods[f]))
           /\ AfterPhases.age = call.before.age + 1
           /\ call.res.outcome = "None" <=> ~BoundaryTick

\* A boundary tick whose evolve was entered with the hunger of an animal that
\* ate in this very tick, touching the food only at the position the
\* movement gave it and not at the one it started from.
C23_Witness ==
    /\ StepCompleted
    /\ call.res.outcome = "Some"
    /\ \E i \in 1..Len(call.before.animals) :
         /\ FirstToEat(i)
         /\ \A f \in 1..Len(call.before.foods) :
              ~colliding(call.before.animals[i], call.before.foods[f])

\* The animals of the last call once the animals before i have been moved
\* and the others not yet.
PartlyMoved(i) ==
    [j \in 1..Len(call.before.animals) |->
        IF j < i THEN MovedAnimals[j] ELSE call.before.animals[j]]

\* C24: in calc_movement the displacement of every agent comes from the
\* positions, rotations and speeds of all agents as the tick found them, so
\* the position the movement phase gives an agent is the same whichever
\* agents have been processed before it.
C24_DeltasFromTickStart ==
    StepCompleted =>
        \A i \in 1..Len(call.before.animals) :
            AfterPhases.animals[i].position =
                move_animal(call.before.animals[i],
                            movement_delta(call.before.animals,
                                           call.before.animals[i])).position

\* A completed tick with an agent whose displacement would have been another
\* one, had it been computed once the agents stored before it had moved.
C24_Witness ==
    /\ StepCompleted
    /\ \E i \in 2..Len(call.before.animals) :
         /\ movement_delta(PartlyMoved(i), call.before.animals[i])
              /= movement_delta(call.before.animals, call.before.animals[i])
         /\ VFinite(AfterPhases.animals[i].position)
         /\ AfterPhases.animals[i].position /= call.before.animals[i].position

-----------------------------------------------------------------------------
(* Claims about the collision pass (SpecCollision) *)

\* The Euclidean distance between two positions is <= 0.01; a comparison
\* with NaN is false.
WithinReach(p, q) == VFinite(p) /\ VFinite(q) /\ DistSq(p, q) <= 100 * 100

\* The point made of the values the last call read after k others and after
\* k + 1 others.
PointDrawnAt(k) ==
    <<Fin((DrawnAt(k) * Scale) \div RawN), Fin((DrawnAt(k + 1) * Scale) \div RawN)>>

\* The pass as the claim words it, from agent i and food j on, after m
\* respawns: agents in stored order, for each agent the foods in stored
\* order, a pair within reach giving the agent one hunger and the food the
\* next point of the random stream at once.
RECURSIVE PassFrom(_, _, _, _, _)
PassFrom(animals, foods, i, j, m) ==
    IF i > Len(animals)
    THEN [animals |-> animals, foods |-> foods, respawns |-> m]
    ELSE IF j > Len(foods)
    THEN PassFrom(animals, foods, i + 1, 1, m)
    ELSE IF WithinReach(animals[i].position, foods[j].position)
    THEN PassFrom([animals EXCEPT ![i].hunger = @ + 1],
                  [foods EXCEPT ![j].position = PointDrawnAt(2 * m)],
                  i, j + 1, m + 1)
    ELSE PassFrom(animals, foods, i, j + 1, m)

\* What the last pass added to the hunger of animal i.
Eaten(i) == call.res.animals[i].hunger - call.animals[i].hunger

\* C25: calc_collision visits agents in stored order and, for each, foods in
\* stored order; each pair at a distance <= 0.01 when it is checked gives the
\* agent exactly one hunger and respawns the food at once at the next random
\* position, which later agents then test.  The total increase of hunger
\* equals the number of respawns (two values read each), hunger never
\* decreases and the number of foods is unchanged.
C25_CollisionPass ==
    call.op = "calc_collision" =>
        LET pass == PassFrom(call.animals, call.foods, 1, 1, 0)
        IN /\ call.res.animals = pass.animals
           /\ call.res.foods = pass.foods
           /\ call.res.rng.n = 2 * pass.respawns
           /\ SumSeq([i \in 1..Len(call.animals) |-> Eaten(i)]) = pass.respawns
           /\ \A i \in 1..Len(call.animals) : Eaten(i) >= 0
           /\ Len(call.res.foods) = Len(call.foods)
           /\ Len(call.res.animals) = Len(call.animals)

\* A pass in which one agent ate two foods, an agent ate a food exactly 0.01
\* away, and a later agent ate a food that was out of its reach before an
\* earlier agent had it respawned.
C25_Witness ==
    /\ call.op = "calc_collision"
    /\ \E i \in 1..Len(call.animals) : Eaten(i) >= 2
    /\ \E i \in 1..Len(call.animals) :
         /\ Eaten(i) >= 1
         /\ \A j \in 1..Len(call.foods) :
              /\ WithinReach(call.animals[i].position, call.foods[j].position)
                   => DistSq(call.animals[i].position, call.foods[j].position) = 100 * 100
              /\ WithinReach(call.animals[i].position, call.res.foods[j].position)
                   => DistSq(call.animals[i].position, call.res.foods[j].position) = 100 * 100
    /\ \E i \in 2..Len(call.animals) :
         /\ Eaten(i) >= 1
         /\ \A j \in 1..Len(call.foods) :
              ~WithinReach(call.animals[i].position, call.foods[j].position)

-----------------------------------------------------------------------------
(* Claims about the age and the boundary (Spec) *)

\* C26: counting the calls of step from the construction or from the last
\* boundary, evolve runs on call number max_generation + 1 and on no earlier
\* call; between calls 0 <= age <= max_generation, and age is the number of
\* ticks since the last boundary that were not a boundary.
C26_BoundaryOnCallMaxGenerationPlusOne ==
    /\ 0 <= sim.age
    /\ sim.age <= sim.config.max_generation
    /\ StepCompleted =>
         /\ call.nth <= call.before.config.max_generation + 1
         /\ call.res.outcome \in {"Some", "panic"}
              <=> call.nth = call.before.config.max_generation + 1
         /\ call.res.outcome = "None" => sim.age = call.nth
         /\ call.res.outcome = "Some" => sim.age = 0

\* The second boundary: evolve ran on call number max_generation + 1 counted
\* from the boundary before.
C26_Witness ==
    /\ StepCompleted
    /\ call.res.outcome = "Some"
    /\ generation = 2
    /\ call.nth = call.before.config.max_generation + 1
    /\ call.before.age = call.before.config.max_generation

-----------------------------------------------------------------------------
(* Claims about the speed and the rotation (Spec) *)

\* The smaller of the two arcs between two rotations, in eighths of a turn.
Turned(a, b) == Min2((a - b) % 8, (b - a) % 8)

\* |x|
Abs(x) == IF x < 0 THEN -x ELSE x

\* C27: for every configuration with speed_min <= speed_max, after every
\* call of step that returned, on a boundary tick or not, the speed of each
\* animal lies in [speed_min, speed_max]; and the brain phase of the call
\* changed no animal's speed by more than speed_accel and no animal's
\* rotation by more than rotation_accel.
C27_SpeedWithinBounds ==
    /\ StepCalled
    /\ call.res.outcome \in {"None", "Some"}
    /\ sim.config.speed_min <= sim.config.speed_max
    => /\ \A i \in 1..Len(sim.animals) :
            /\ sim.config.speed_min <= sim.animals[i].speed
            /\ sim.animals[i].speed <= sim.config.speed_max
       /\ \A i \in 1..Len(call.before.animals) :
            /\ Abs(AfterPhases.animals[i].speed - call.before.animals[i].speed)
                 <= sim.config.speed_accel
            /\ Turned(AfterPhases.animals[i].rotation, call.before.animals[i].rotation)
                 * FRAC_PI_4 <= sim.config.rotation_accel

=============================================================================
